---------------------------- MODULE Spec2Model ----------------------------
(***************************************************************************)
(* Model of the tier scoring and normalisation engine of                   *)
(* fintech-terminal-pro: app/scoring.py (normalize, calculate_scores),     *)
(* app/peers.py (get_peers, get_peer_raw) and app/consensus.py             *)
(* (analyze_headlines, get_consensus_sentiment), and the store written by  *)
(* scripts/quant_engine_cron.py (run_quant_engine).                        *)
(*                                                                         *)
(* Specifications.  Spec is calculate_scores(ticker, live=True) step by    *)
(* step; SpecStore is run_quant_engine writing a ticker's row and the      *)
(* application then calling calculate_scores(ticker) with live=False;      *)
(* SpecNormalize, SpecPercentile, SpecConsensus, SpecPeers and SpecRsi     *)
(* apply normalize, get_percentile, get_consensus_sentiment, get_peer_raw  *)
(* and score_rsi to drawn arguments; SpecOrder is the weighted loop of     *)
(* calculate_scores visiting the tiers in any order.                       *)
(*                                                                         *)
(* Numbers.  Python floats are modelled as exact rationals <<n, d>> with   *)
(* d > 0, so int() is an exact truncation; the binary rounding of IEEE     *)
(* doubles is not modelled.  NaN and the infinities are outside the input  *)
(* sets.                                                                   *)
(*                                                                         *)
(* Python values.  A value read from a provider mapping is a triple        *)
(* <<tag, n, d>>: "absent" (key not in the mapping), "None", "num" (an     *)
(* int or float n/d), "str" (a string that float() parses, after '%' and   *)
(* ',' are removed, to n/d) and "badstr" (a non-empty string that float()  *)
(* rejects).                                                               *)
(***************************************************************************)
EXTENDS Integers, Sequences, FiniteSets, TLC

VARIABLES pc, call, store, env, loc, scores, weights, result

vars == <<pc, call, store, env, loc, scores, weights, result>>

---------------------------------------------------------------------------
(* Rational arithmetic: the float operations of the source, made exact.    *)

RECURSIVE Gcd(_, _)
Gcd(a, b) == IF b = 0 THEN a ELSE Gcd(b, a % b)

Abs(n) == IF n < 0 THEN -n ELSE n

\* canonical form: positive denominator, lowest terms
Q(n, d) ==
    LET s == IF d < 0 THEN -1 ELSE 1
        g == Gcd(Abs(n), Abs(d))
    IN  <<(s * n) \div g, (s * d) \div g>>

R(n) == <<n, 1>>

RAdd(a, b) == Q(a[1] * b[2] + b[1] * a[2], a[2] * b[2])
RSub(a, b) == Q(a[1] * b[2] - b[1] * a[2], a[2] * b[2])
RMul(a, b) == Q(a[1] * b[1], a[2] * b[2])
\* b # 0
RDiv(a, b) == Q(a[1] * b[2], a[2] * b[1])
RLt(a, b) == a[1] * b[2] < b[1] * a[2]
RLe(a, b) == a[1] * b[2] <= b[1] * a[2]
RIsZero(a) == a[1] = 0

\* Python's max(a, b) and min(a, b) on two numbers
RMax(a, b) == IF RLt(a, b) THEN b ELSE a
RMin(a, b) == IF RLt(b, a) THEN b ELSE a

\* Python's int(x) on a float: truncation toward zero
Trunc(a) == IF a[1] >= 0 THEN a[1] \div a[2] ELSE -((-a[1]) \div a[2])

---------------------------------------------------------------------------
(* Python values.                                                          *)

Absent == <<"absent", 0, 1>>
None == <<"None", 0, 1>>
BadStr == <<"badstr", 0, 1>>
Num(n, d) == <<"num", Q(n, d)[1], Q(n, d)[2]>>
Str(n, d) == <<"str", Q(n, d)[1], Q(n, d)[2]>>

IsNone(v) == v[1] = "None"
\* isinstance(v, (int, float))
IsNum(v) == v[1] = "num"
\* isinstance(v, str)
IsStr(v) == v[1] \in {"str", "badstr"}
\* float(v.replace('%', '').replace(',', '')) succeeds
Parses(v) == v[1] = "str"
\* the rational a "num" or a parsed "str" stands for
Rat(v) == <<v[2], v[3]>>
FromRat(q) == <<"num", q[1], q[2]>>
\* Python truthiness of a value: None, 0 and 0.0 are falsy
Truthy(v) == CASE v[1] = "None" -> FALSE
               [] v[1] = "num" -> v[2] # 0
               [] OTHER -> TRUE

---------------------------------------------------------------------------
(* normalize (app/scoring.py).  The outcome is <<"ret", n, d>> for a       *)
(* returned number and <<"ZeroDivisionError", 0, 1>> when line 37 divides  *)
(* by max_val - min_val = 0.                                               *)

Ret(q) == <<"ret", q[1], q[2]>>
Raised(e) == <<e, 0, 1>>
IsRet(o) == o[1] = "ret"
RetVal(o) == <<o[2], o[3]>>

\* ---- variants of normalize with one plausible slip each ----

\* lines 34-35 (the loss penalty) left out
normalize_NoLossPenalty(value, min_val, max_val, invert) ==
    IF IsNone(value) THEN Ret(R(50))
    ELSE IF IsStr(value) /\ ~Parses(value) THEN Ret(R(50))
    ELSE LET v == Rat(value) IN
         IF RIsZero(RSub(max_val, min_val)) THEN Raised("ZeroDivisionError")
         ELSE LET raw == RMul(RDiv(RSub(v, min_val), RSub(max_val, min_val)), R(100))
                  score == RMax(R(0), RMin(R(100), raw))
              IN  Ret(IF invert THEN RSub(R(100), score) ELSE score)

\* the None test of line 25 made after the scaling of line 37
normalize_NoneLate(value, min_val, max_val, invert) ==
    IF IsStr(value) /\ ~Parses(value) THEN Ret(R(50))
    ELSE IF RIsZero(RSub(max_val, min_val)) THEN Raised("ZeroDivisionError")
    ELSE IF IsNone(value) THEN Ret(R(50))
    ELSE LET v == Rat(value) IN
         IF invert /\ RLt(v, R(0)) THEN Ret(R(0))
         ELSE LET raw == RMul(RDiv(RSub(v, min_val), RSub(max_val, min_val)), R(100))
                  score == RMax(R(0), RMin(R(100), raw))
              IN  Ret(IF invert THEN RSub(R(100), score) ELSE score)

\* line 38 (the clamp) left out
normalize_NoClamp(value, min_val, max_val, invert) ==
    IF IsNone(value) THEN Ret(R(50))
    ELSE IF IsStr(value) /\ ~Parses(value) THEN Ret(R(50))
    ELSE LET v == Rat(value) IN
         IF invert /\ RLt(v, R(0)) THEN Ret(R(0))
         ELSE IF RIsZero(RSub(max_val, min_val)) THEN Raised("ZeroDivisionError")
         ELSE LET raw == RMul(RDiv(RSub(v, min_val), RSub(max_val, min_val)), R(100))
              IN  Ret(IF invert THEN RSub(R(100), raw) ELSE raw)

\* line 39 returning score whatever invert is
normalize_InvertIgnored(value, min_val, max_val, invert) ==
    IF IsNone(value) THEN Ret(R(50))
    ELSE IF IsStr(value) /\ ~Parses(value) THEN Ret(R(50))
    ELSE LET v == Rat(value) IN
         IF invert /\ RLt(v, R(0)) THEN Ret(R(0))
         ELSE IF RIsZero(RSub(max_val, min_val)) THEN Raised("ZeroDivisionError")
         ELSE LET raw == RMul(RDiv(RSub(v, min_val), RSub(max_val, min_val)), R(100))
                  score == RMax(R(0), RMin(R(100), raw))
              IN  Ret(score)

normalize(value, min_val, max_val, invert) ==
    IF IsNone(value) THEN Ret(R(50))
    ELSE IF IsStr(value) /\ ~Parses(value) THEN Ret(R(50))
    ELSE LET v == Rat(value) IN
         IF invert /\ RLt(v, R(0)) THEN Ret(R(0))
         ELSE IF RIsZero(RSub(max_val, min_val)) THEN Raised("ZeroDivisionError")
         ELSE LET raw == RMul(RDiv(RSub(v, min_val), RSub(max_val, min_val)), R(100))
                  score == RMax(R(0), RMin(R(100), raw))
              IN  Ret(IF invert THEN RSub(R(100), score) ELSE score)

---------------------------------------------------------------------------
(* The provider mapping stock.info and the get helper of calculate_scores. *)
(* Money amounts (marketCap, operatingCashflow, netIncomeToCommon) are in  *)
(* billions, volumes in millions; every other metric is in its own unit.   *)

InfoKeys ==
    {"enterpriseToEbitda", "trailingPE", "priceToBook", "pegRatio",
     "priceToSalesTrailing12Months", "earningsGrowth", "forwardPE",
     "targetMeanPrice", "revenueGrowth", "returnOnEquity", "profitMargins",
     "operatingMargins", "payoutRatio", "currentRatio", "debtToEquity",
     "operatingCashflow", "netIncomeToCommon", "returnOnAssets",
     "heldPercentInsiders", "marketCap", "volume", "averageVolume",
     "heldPercentInstitutions", "dividendYield", "beta", "shortPercentFloat",
     "currentPrice"}

\* info.get(key): None when the key is absent
InfoGet(info, key) == IF info[key] = Absent THEN None ELSE info[key]

\* get(key, default) of lines 71-78 for a metric key: a string that parses
\* is returned as a float, any other value as it is
getd(info, key, default) ==
    LET val == IF info[key] = Absent THEN default ELSE info[key]
    IN  IF IsStr(val) /\ Parses(val) THEN FromRat(Rat(val)) ELSE val

get(info, key) == getd(info, key, None)

\* thresholds['de_good'] of lines 87-103
de_good(sector) ==
    IF sector = "Financial Services" THEN 200 ELSE 100

---------------------------------------------------------------------------
(* app/peers.py: get_peers and get_peer_raw.                               *)

SECTOR_PEERS ==
    [Technology |-> <<"MSFT", "AAPL", "NVDA", "ORCL", "ADBE", "CRM", "AMD">>,
     FinancialServices |-> <<"JPM", "BAC", "GS", "MS", "WFC", "C", "BLK">>,
     Energy |-> <<"XOM", "CVX", "SHEL", "TTE", "BP", "COP", "EOG">>,
     Healthcare |-> <<"JNJ", "UNH", "PFE", "LLY", "MRK", "ABBV", "TMO">>,
     ConsumerCyclical |-> <<"AMZN", "TSLA", "HD", "MCD", "NKE", "SBUX", "LOW">>,
     Industrials |-> <<"CAT", "GE", "HON", "UPS", "DE", "LMT", "BA">>,
     ConsumerDefensive |-> <<"WMT", "PG", "KO", "PEP", "COST", "PM", "MO">>,
     CommunicationServices |-> <<"GOOGL", "META", "NFLX", "DIS", "CMCSA", "TMUS", "VZ">>,
     BasicMaterials |-> <<"LIN", "BHP", "RIO", "SHW", "FCX", "NEM", "APD">>,
     RealEstate |-> <<"PLD", "AMT", "EQIX", "CCI", "PSA", "O", "VICI">>,
     Utilities |-> <<"NEE", "DUK", "SO", "D", "AEP", "SRE", "PEG">>]

\* the sector names of the table, as the provider spells them
SectorKey(sector) ==
    CASE sector = "Technology" -> "Technology"
      [] sector = "Financial Services" -> "FinancialServices"
      [] sector = "Energy" -> "Energy"
      [] sector = "Healthcare" -> "Healthcare"
      [] sector = "Consumer Cyclical" -> "ConsumerCyclical"
      [] sector = "Industrials" -> "Industrials"
      [] sector = "Consumer Defensive" -> "ConsumerDefensive"
      [] sector = "Communication Services" -> "CommunicationServices"
      [] sector = "Basic Materials" -> "BasicMaterials"
      [] sector = "Real Estate" -> "RealEstate"
      [] sector = "Utilities" -> "Utilities"
      [] OTHER -> "none"

\* SECTOR_PEERS.get(sector, ['SPY', 'QQQ', 'DIA'])
Candidates(sector) ==
    IF SectorKey(sector) = "none" THEN <<"SPY", "QQQ", "DIA">>
    ELSE SECTOR_PEERS[SectorKey(sector)]

RECURSIVE Without(_, _)
Without(seq, t) ==
    IF seq = << >> THEN << >>
    ELSE IF Head(seq) = t THEN Without(Tail(seq), t)
    ELSE <<Head(seq)>> \o Without(Tail(seq), t)

Take(seq, n) == SubSeq(seq, 1, IF Len(seq) < n THEN Len(seq) ELSE n)

get_peers(ticker, sector) == Take(Without(Candidates(sector), ticker), 6)

PeerFields ==
    {"Price", "P/E", "Fwd P/E", "Trailing P/E", "EV/EBITDA", "Margins", "ROE",
     "PEG", "Mkt Cap", "Price/Sales"}

\* `g and g > 0` on a raw value: a TypeError for a string, else its truth
GrowthTest(g) ==
    CASE IsNone(g) -> "false"
      [] IsStr(g) -> "TypeError"
      [] OTHER -> IF g[2] > 0 THEN "true" ELSE "false"

\* pe / (g * 100): a TypeError when pe is a string
PegOf(pe, g) ==
    IF IsStr(pe) THEN Raised("TypeError")
    ELSE Ret(RDiv(Rat(pe), RMul(Rat(g), R(100))))

\* lines 56-79: the PEG of a ticker with its fallback chain.  The outcome is
\* <<"ret", ..>> with a number, <<"None", ..>> or <<"TypeError", ..>>.
PeerPeg(info, pe) ==
    LET peg == InfoGet(info, "pegRatio")
        g_earn == InfoGet(info, "earningsGrowth")
        g_rev == InfoGet(info, "revenueGrowth")
        roe == InfoGet(info, "returnOnEquity")
        payout == IF Truthy(InfoGet(info, "payoutRatio"))
                  THEN InfoGet(info, "payoutRatio") ELSE Num(0, 1)
    IN  IF ~(IsNone(peg) /\ ~IsNone(pe)) THEN peg
        ELSE IF GrowthTest(g_earn) = "TypeError" THEN Raised("TypeError")
        ELSE IF GrowthTest(g_earn) = "true" THEN PegOf(pe, g_earn)
        ELSE IF GrowthTest(g_rev) = "TypeError" THEN Raised("TypeError")
        ELSE IF GrowthTest(g_rev) = "true" THEN PegOf(pe, g_rev)
        ELSE IF GrowthTest(roe) = "TypeError" THEN Raised("TypeError")
        ELSE IF GrowthTest(roe) = "false" THEN None
        ELSE IF IsStr(payout) THEN Raised("TypeError")
        ELSE LET g_sgr == RMul(Rat(roe), RSub(R(1), Rat(payout)))
             IN  IF RLt(Q(1, 100), g_sgr)
                 THEN PegOf(pe, FromRat(g_sgr))
                 ELSE None

\* lines 42-100 for one ticker t whose provider entry is src: the record
\* appended to data, or no record when the body raises
PeerEntry(t, src) ==
    IF ~src.ok THEN [ok |-> FALSE]
    ELSE LET info == src.info
             pe == IF IsNone(InfoGet(info, "trailingPE"))
                   THEN InfoGet(info, "forwardPE")
                   ELSE InfoGet(info, "trailingPE")
             margins == IF IsNone(InfoGet(info, "profitMargins"))
                        THEN InfoGet(info, "operatingMargins")
                        ELSE InfoGet(info, "profitMargins")
             peg == PeerPeg(info, pe)
         IN  IF peg[1] = "TypeError" THEN [ok |-> FALSE]
             ELSE [ok |-> TRUE,
                   Ticker |-> t,
                   m |-> [f \in PeerFields |->
                           CASE f = "Price" -> InfoGet(info, "currentPrice")
                             [] f = "P/E" -> pe
                             [] f = "Fwd P/E" -> InfoGet(info, "forwardPE")
                             [] f = "Trailing P/E" -> InfoGet(info, "trailingPE")
                             [] f = "EV/EBITDA" -> InfoGet(info, "enterpriseToEbitda")
                             [] f = "Margins" -> margins
                             [] f = "ROE" -> InfoGet(info, "returnOnEquity")
                             [] f = "PEG" -> IF peg[1] = "ret" THEN FromRat(RetVal(peg))
                                             ELSE peg
                             [] f = "Mkt Cap" -> InfoGet(info, "marketCap")
                             [] f = "Price/Sales" ->
                                   InfoGet(info, "priceToSalesTrailing12Months")]]

RECURSIVE PeerRows(_, _)
PeerRows(tickers, infoOf) ==
    IF tickers = << >> THEN << >>
    ELSE LET e == PeerEntry(Head(tickers), infoOf[Head(tickers)])
         IN  (IF e.ok THEN <<[Ticker |-> e.Ticker, m |-> e.m]>> ELSE << >>)
                 \o PeerRows(Tail(tickers), infoOf)

\* get_peer_raw(ticker, sector) against the provider snapshot infoOf
get_peer_raw(ticker, sector, infoOf) ==
    PeerRows(<<ticker>> \o get_peers(ticker, sector), infoOf)

---------------------------------------------------------------------------
(* get_percentile of calculate_scores (lines 109-147).                     *)

\* penalize(x) of lines 116-124: None, or a number
penalize(x, invert) ==
    IF IsNone(x) THEN None
    ELSE IF IsStr(x) /\ ~Parses(x) THEN None
    ELSE IF invert /\ x[2] < 0 THEN Num(1000000, 1)
    ELSE FromRat(Rat(x))

RECURSIVE PeerValues(_, _, _)
PeerValues(peers_data, metric_key, invert) ==
    IF peers_data = << >> THEN << >>
    ELSE LET p_val == penalize(Head(peers_data).m[metric_key], invert)
         IN  (IF IsNone(p_val) THEN << >> ELSE <<Rat(p_val)>>)
                 \o PeerValues(Tail(peers_data), metric_key, invert)

\* percentileofscore with kind='strict': the values below the score
percentileofscore_Strict(values, score) ==
    Q(100 * Cardinality({i \in 1..Len(values) : RLt(values[i], score)}),
      Len(values))

\* scipy.stats.percentileofscore(values, score, kind='weak')
percentileofscore(values, score) ==
    Q(100 * Cardinality({i \in 1..Len(values) : RLe(values[i], score)}),
      Len(values))

\* get_percentile returning 100 - pct whatever invert is
get_percentile_AlwaysInverts(peers_data, metric_key, target_val, invert) ==
    IF peers_data = << >> \/ IsNone(target_val) THEN R(50)
    ELSE LET target_val_adj == penalize(target_val, invert) IN
         IF IsNone(target_val_adj) THEN R(50)
         ELSE LET peer_values == PeerValues(peers_data, metric_key, invert) IN
              IF peer_values = << >> THEN R(50)
              ELSE LET values == Append(peer_values, Rat(target_val_adj))
                       pct == percentileofscore(values, Rat(target_val_adj))
                   IN  RSub(R(100), pct)

\* get_percentile without line 137: an empty peer sample is ranked
get_percentile_RanksAlone(peers_data, metric_key, target_val, invert) ==
    IF peers_data = << >> \/ IsNone(target_val) THEN R(50)
    ELSE LET target_val_adj == penalize(target_val, invert) IN
         IF IsNone(target_val_adj) THEN R(50)
         ELSE LET peer_values == PeerValues(peers_data, metric_key, invert)
                  values == Append(peer_values, Rat(target_val_adj))
                  pct == percentileofscore(values, Rat(target_val_adj))
              IN  IF invert THEN RSub(R(100), pct) ELSE pct

get_percentile(peers_data, metric_key, target_val, invert) ==
    IF peers_data = << >> \/ IsNone(target_val) THEN R(50)
    ELSE LET target_val_adj == penalize(target_val, invert) IN
         IF IsNone(target_val_adj) THEN R(50)
         ELSE LET peer_values == PeerValues(peers_data, metric_key, invert) IN
              IF peer_values = << >> THEN R(50)
              ELSE LET values == Append(peer_values, Rat(target_val_adj))
                       pct == percentileofscore(values, Rat(target_val_adj))
                   IN  IF invert THEN RSub(R(100), pct) ELSE pct

\* np.mean of a non-empty list of numbers
RECURSIVE RSum(_)
RSum(xs) == IF xs = << >> THEN R(0) ELSE RAdd(Head(xs), RSum(Tail(xs)))
mean(xs) == RDiv(RSum(xs), R(Len(xs)))

\* int(np.mean(xs) if xs else 0): an empty mean scored at 0
TierMean_EmptyIsZero(xs) == IF xs = << >> THEN 0 ELSE Trunc(mean(xs))

\* int(np.mean(xs) if xs else 50)
TierMean(xs) == IF xs = << >> THEN 50 ELSE Trunc(mean(xs))

---------------------------------------------------------------------------
(* The tier calculators of calculate_scores on stock.info (tiers 1-9, 12). *)
(* Each gives the list the tier averages, or the tier's score.             *)

\* a one-element list when cond holds, else the empty list
When(cond, x) == IF cond THEN <<x>> ELSE << >>

\* a call of normalize whose limits differ: the number it returns
norm(value, min_val, max_val, invert) ==
    RetVal(normalize(value, min_val, max_val, invert))

\* lines 155-168: peg_ratio after the back-fill from P/E and earnings growth
PegRatio(info) ==
    LET peg == get(info, "pegRatio")
        pe == get(info, "trailingPE")
        growth == get(info, "earningsGrowth")
    IN  IF /\ ~Truthy(peg) /\ Truthy(pe) /\ Truthy(growth)
           /\ IsNum(pe) /\ IsNum(growth) /\ growth[2] > 0
        THEN FromRat(RDiv(Rat(pe), RMul(Rat(growth), R(100))))
        ELSE peg

\* lines 158-194
scores_t1(info, peers_data) ==
    LET peg_ratio == PegRatio(info)
        ps_ratio == get(info, "priceToSalesTrailing12Months")
        ev_ebitda == get(info, "enterpriseToEbitda")
        pe_ratio == get(info, "trailingPE")
        fwd_pe == get(info, "forwardPE")
    IN  When(Truthy(peg_ratio) /\ IsNum(peg_ratio),
             norm(peg_ratio, R(1), R(3), TRUE))
        \o When(Truthy(ps_ratio),
                get_percentile(peers_data, "Price/Sales", ps_ratio, TRUE))
        \o When(Truthy(ev_ebitda),
                get_percentile(peers_data, "EV/EBITDA", ev_ebitda, TRUE))
        \o When(Truthy(pe_ratio),
                get_percentile(peers_data, "P/E", pe_ratio, TRUE))
        \o When(Truthy(fwd_pe),
                get_percentile(peers_data, "Fwd P/E", fwd_pe, TRUE))

\* lines 213-226: the revision score appended to scores_t2.  revisions is
\* <<"raises", 0, 0>> (the try block raises), <<"None", 0, 0>>
\* (upgrades_downgrades is None) or <<"ok", upgrades, downgrades>>, the
\* counts of the last 30 days.
revision_score(revisions) ==
    IF revisions[1] = "ok" /\ revisions[2] + revisions[3] > 0
    THEN Q(100 * revisions[2], revisions[2] + revisions[3])
    ELSE R(50)

\* lines 201-226; current is the last close
scores_t2(info, current, revisions) ==
    LET target == get(info, "targetMeanPrice")
    IN  When(Truthy(target) /\ IsNum(target) /\ current > 0,
             norm(FromRat(RDiv(RSub(Rat(target), R(current)), R(current))),
                  R(0), Q(40, 100), FALSE))
        \o <<revision_score(revisions)>>

\* lines 233-238
scores_t3(info) ==
    LET rev_growth == get(info, "revenueGrowth")
        ear_growth == get(info, "earningsGrowth")
    IN  When(~IsNone(rev_growth), norm(rev_growth, R(0), Q(20, 100), FALSE))
        \o When(~IsNone(ear_growth), norm(ear_growth, R(0), Q(20, 100), FALSE))

\* lines 245-250
scores_t4(info, peers_data) ==
    LET roe == get(info, "returnOnEquity")
        margins == get(info, "profitMargins")
    IN  When(~IsNone(roe), get_percentile(peers_data, "ROE", roe, FALSE))
        \o When(~IsNone(margins),
                get_percentile(peers_data, "Margins", margins, FALSE))

\* lines 257-268
scores_t5(info, sector) ==
    LET curr_ratio == get(info, "currentRatio")
        de_ratio == get(info, "debtToEquity")
    IN  When(Truthy(curr_ratio) /\ IsNum(curr_ratio),
             norm(curr_ratio, R(1), R(2), FALSE))
        \o When(Truthy(de_ratio) /\ IsNum(de_ratio),
                norm(de_ratio, R(50), Q(de_good(sector) * 15, 10), TRUE))

\* lines 275-292
s_forensics(info, sector) ==
    LET ocf == get(info, "operatingCashflow")
        ni == get(info, "netIncomeToCommon")
        roa == get(info, "returnOnAssets")
    IN  IF Truthy(ocf) /\ Truthy(ni) /\ IsNum(ocf) /\ IsNum(ni)
        THEN IF ni[2] > 0
             THEN norm(FromRat(RDiv(Rat(ocf), Rat(ni))), Q(8, 10), Q(15, 10), FALSE)
             ELSE IF ocf[2] > 0 THEN R(75) ELSE R(20)
        ELSE IF sector = "Financial Services" /\ Truthy(roa)
             THEN norm(roa, Q(5, 1000), Q(15, 1000), FALSE)
             ELSE R(50)

\* line 304: mkt_cap > 100_000_000_000 raises a TypeError unless mkt_cap is
\* a number (marketCap is in billions)
MktCapRaises(info) == ~IsNum(getd(info, "marketCap", Num(0, 1)))

\* lines 299-306, when line 304 does not raise
s_mgmt(info) ==
    LET insider == get(info, "heldPercentInsiders")
        mkt_cap == getd(info, "marketCap", Num(0, 1))
        target_insider == IF RLt(R(100), Rat(mkt_cap)) THEN Q(1, 1000) ELSE Q(10, 100)
    IN  IF ~IsNone(insider)
        THEN Trunc(norm(insider, R(0), target_insider, FALSE))
        ELSE 50

\* lines 312-326
scores_t8(info) ==
    LET vol == get(info, "volume")
        avg_vol == get(info, "averageVolume")
        inst_own == get(info, "heldPercentInstitutions")
    IN  When(/\ Truthy(vol) /\ Truthy(avg_vol) /\ IsNum(avg_vol) /\ IsNum(vol)
             /\ avg_vol[2] > 0,
             norm(FromRat(RDiv(Rat(vol), Rat(avg_vol))), Q(5, 10), Q(15, 10), FALSE))
        \o When(~IsNone(inst_own), norm(inst_own, Q(20, 100), Q(80, 100), FALSE))

\* lines 332-334 with a missing yield scored at the general neutral 50
s_yield_Neutral(info) ==
    LET div == get(info, "dividendYield")
    IN  IF ~IsNone(div) THEN Trunc(norm(div, R(0), Q(4, 100), FALSE)) ELSE 50

\* lines 332-334
s_yield(info) ==
    LET div == get(info, "dividendYield")
    IN  IF ~IsNone(div) THEN Trunc(norm(div, R(0), Q(4, 100), FALSE)) ELSE 20

\* lines 394-410
scores_t12(info) ==
    LET beta == get(info, "beta")
        short_float == get(info, "shortPercentFloat")
    IN  When(~IsNone(beta), norm(beta, Q(5, 10), Q(18, 10), TRUE))
        \o When(~IsNone(short_float),
                norm(short_float, Q(1, 100), Q(15, 100), TRUE))

---------------------------------------------------------------------------
(* Tier 10 (Timing) on the price history.  history is the sequence of the  *)
(* daily closes, oldest first; the rows are consecutive trading days, five *)
(* to a week, the last row being weekday dow (5 = Friday).  A float that   *)
(* may be NaN is <<"nan", 0, 1>> or <<"num", n, d>>.                       *)

NaN == <<"nan", 0, 1>>
IsNaN(x) == x[1] = "nan"

RECURSIVE SumRange(_, _, _)
\* series[lo] + ... + series[hi]
SumRange(series, lo, hi) ==
    IF lo > hi THEN 0
    ELSE IF lo = hi THEN series[lo]
    ELSE LET mid == (lo + hi) \div 2
         IN  SumRange(series, lo, mid) + SumRange(series, mid + 1, hi)

\* series.rolling(window).mean().iloc[-1]
RollingMeanLast(series, window) ==
    IF Len(series) < window THEN NaN
    ELSE FromRat(Q(SumRange(series, Len(series) - window + 1, Len(series)), window))

\* lines 341-342
sma200(history) ==
    IF IsNaN(RollingMeanLast(history, 200))
    THEN RollingMeanLast(history, 50)
    ELSE RollingMeanLast(history, 200)

\* lines 344-347
s_sma(history) ==
    LET sma == sma200(history)
        current == history[Len(history)]
    IN  IF ~IsNaN(sma) /\ sma[2] > 0
        THEN Trunc(norm(FromRat(RDiv(RSub(R(current), Rat(sma)), Rat(sma))),
                        Q(-25, 100), Q(20, 100), FALSE))
        ELSE 50

\* delta.where(delta > 0, 0) at row i; the first row's delta is NaN, which
\* where() replaces by 0
GainAt(series, i) ==
    IF i >= 2 /\ series[i] > series[i - 1] THEN series[i] - series[i - 1] ELSE 0
\* -delta.where(delta < 0, 0) at row i
LossAt(series, i) ==
    IF i >= 2 /\ series[i] < series[i - 1] THEN series[i - 1] - series[i] ELSE 0

RECURSIVE SumGain(_, _, _)
SumGain(series, lo, hi) ==
    IF lo > hi THEN 0 ELSE GainAt(series, hi) + SumGain(series, lo, hi - 1)
RECURSIVE SumLoss(_, _, _)
SumLoss(series, lo, hi) ==
    IF lo > hi THEN 0 ELSE LossAt(series, hi) + SumLoss(series, lo, hi - 1)

\* calc_rsi(series, 14).iloc[-1] of lines 350-355.  gain / loss is inf when
\* only loss is 0, and then 100 / (1 + rs) is 0; it is NaN when both are 0.
calc_rsi(series, period) ==
    IF Len(series) < period THEN NaN
    ELSE LET gain == SumGain(series, Len(series) - period + 1, Len(series))
             loss == SumLoss(series, Len(series) - period + 1, Len(series))
         IN  IF loss = 0
             THEN IF gain = 0 THEN NaN ELSE Num(100, 1)
             ELSE FromRat(RSub(R(100),
                               RDiv(R(100), RAdd(R(1), Q(gain, loss)))))

\* history['Close'].resample('W-FRI').last(): the last close of every week
WeekCount(n, dow) == IF n <= dow THEN 1 ELSE 1 + ((n - dow) + 4) \div 5
weekly_history(history, dow) ==
    LET n == Len(history)
        w == WeekCount(n, dow)
    IN  [j \in 1..w |->
            IF j = w THEN history[n] ELSE history[n - dow - 5 * (w - 1 - j)]]

\* lines 357-364
rsi_d(history) == calc_rsi(history, 14)
rsi_w(history, dow) ==
    IF Len(weekly_history(history, dow)) > 15
    THEN calc_rsi(weekly_history(history, dow), 14)
    ELSE Num(50, 1)

\* lines 367-376 with the overbought bucket starting above 70
score_rsi_OverboughtFrom70(val) ==
    IF IsNaN(val) THEN 50
    ELSE IF RLt(Rat(val), R(30)) THEN 100
    ELSE IF RLt(Rat(val), R(40)) THEN 85
    ELSE IF RLe(R(50), Rat(val)) /\ RLe(Rat(val), R(70)) THEN 65
    ELSE IF RLt(R(70), Rat(val)) THEN 20
    ELSE 50

\* lines 367-376
score_rsi(val) ==
    IF IsNaN(val) THEN 50
    ELSE IF RLt(Rat(val), R(30)) THEN 100
    ELSE IF RLt(Rat(val), R(40)) THEN 85
    ELSE IF RLe(R(50), Rat(val)) /\ RLe(Rat(val), R(70)) THEN 65
    ELSE IF RLt(R(75), Rat(val)) THEN 20
    ELSE 50

\* lines 339-384: the provisional Timing score
s_timing(history, dow) ==
    IF Len(history) > 15
    THEN Trunc(Q(4 * s_sma(history) + 4 * score_rsi(rsi_w(history, dow))
                    + 2 * score_rsi(rsi_d(history)), 10))
    ELSE 50

\* lines 425-432: s_rs from the aligned benchmark closes spy_last and
\* spy_ago (aligned_spy.iloc[-1] and .iloc[-60])
rel_strength(history, spy_last, spy_ago) ==
    LET n == Len(history)
        stock_RET == RSub(Q(history[n], history[n - 59]), R(1))
        spy_RET == RSub(Q(spy_last, spy_ago), R(1))
    IN  RSub(stock_RET, spy_RET)

s_rs(history, spy_last, spy_ago) ==
    Trunc(norm(FromRat(rel_strength(history, spy_last, spy_ago)),
               Q(-10, 100), Q(10, 100), FALSE))

\* lines 417-441 with a failed benchmark read resetting the Timing score
timing_with_rs_Reset(s_timing_prev, history, spy) ==
    IF Len(history) > 60 /\ spy[1] = "ok"
    THEN Trunc(Q(8 * s_timing_prev + 2 * s_rs(history, spy[2], spy[3]), 10))
    ELSE IF Len(history) > 60 THEN 50
    ELSE s_timing_prev

\* lines 417-441: the Timing score after the relative-strength step.  spy
\* is <<"raises", 0, 0>> when the benchmark computation raises and
\* <<"ok", spy_last, spy_ago>> otherwise.
timing_with_rs(s_timing_prev, history, spy) ==
    IF Len(history) > 60 /\ spy[1] = "ok"
    THEN Trunc(Q(8 * s_timing_prev + 2 * s_rs(history, spy[2], spy[3]), 10))
    ELSE s_timing_prev

---------------------------------------------------------------------------
(* app/consensus.py.  A classified headline is <<label, confidence>> with  *)
(* the confidence in hundredths.  A source is [ok, heads]: ok is FALSE     *)
(* when fetching it raises.  classifier is "none" (sentiment_pipeline is   *)
(* None), "ok" or "raises".                                                *)

RECURSIVE HeadlineTotal(_)
\* lines 31-35
HeadlineTotal(results) ==
    IF results = << >> THEN R(0)
    ELSE LET res == Head(results)
             add == CASE res[1] = "positive" -> Q(100 * res[2], 100)
                      [] res[1] = "negative" -> R(0)
                      [] OTHER -> R(50)
         IN  RAdd(add, HeadlineTotal(Tail(results)))

\* analyze_headlines (lines 26-37), the classifier not raising
analyze_headlines(headlines, classifier) ==
    IF classifier = "none" \/ headlines = << >> THEN 50
    ELSE Trunc(RDiv(HeadlineTotal(headlines), R(Len(headlines))))

\* lines 49-54 and 57-61 with a failing source scored 0
source_score_FailureIsZero(source, classifier) ==
    IF ~source.ok THEN 0
    ELSE IF classifier = "raises" /\ Take(source.heads, 5) # << >> THEN 0
    ELSE analyze_headlines(Take(source.heads, 5), classifier)

\* lines 49-54 and 57-61: the score of one source
source_score(source, classifier) ==
    IF ~source.ok THEN 50
    ELSE IF classifier = "raises" /\ Take(source.heads, 5) # << >> THEN 50
    ELSE analyze_headlines(Take(source.heads, 5), classifier)

\* the headlines a source leaves in y_headlines / g_headlines
source_headlines(source) == IF source.ok THEN Take(source.heads, 5) ELSE << >>

\* get_consensus_sentiment (lines 40-74)
get_consensus_sentiment(yahoo, google, classifier) ==
    LET s_yahoo == source_score(yahoo, classifier)
        s_google == source_score(google, classifier)
    IN  [score |-> Trunc(Q(s_yahoo + s_google, 2)),
         yahoo_score |-> s_yahoo,
         google_score |-> s_google,
         headline_count |-> Len(source_headlines(yahoo)) + Len(source_headlines(google))]

---------------------------------------------------------------------------
(* The weighted calculation of calculate_scores (lines 443-462).           *)

TierOrder ==
    <<"Tier 1: Valuation", "Tier 2: Intrinsic/Alpha", "Tier 3: Growth",
      "Tier 4: Efficiency", "Tier 5: Financial Health", "Tier 6: Forensics",
      "Tier 7: Management", "Tier 8: Capital Flow", "Tier 9: Total Yield",
      "Tier 10: Timing", "Tier 11: Sentiment", "Tier 12: Derivatives">>

TierLabels == {TierOrder[i] : i \in 1..12}

\* the weights[...] assignments of lines 197, 229, 241, 253, 271, 295, 308,
\* 329, 335, 385, 390 and 413
WeightTable ==
    [t \in TierLabels |->
        CASE t = "Tier 1: Valuation" -> 10
          [] t = "Tier 2: Intrinsic/Alpha" -> 10
          [] t = "Tier 3: Growth" -> 9
          [] t = "Tier 4: Efficiency" -> 10
          [] t = "Tier 5: Financial Health" -> 9
          [] t = "Tier 6: Forensics" -> 8
          [] t = "Tier 7: Management" -> 8
          [] t = "Tier 8: Capital Flow" -> 9
          [] t = "Tier 9: Total Yield" -> 8
          [] t = "Tier 10: Timing" -> 9
          [] t = "Tier 11: Sentiment" -> 8
          [] t = "Tier 12: Derivatives" -> 6]

\* d[key] = v on a dict
Put(dict, key, v) ==
    [k \in DOMAIN dict \cup {key} |-> IF k = key THEN v ELSE dict[k]]

\* weights.get(tier, 1)
WeightGet(wt, tier) == IF tier \in DOMAIN wt THEN wt[tier] ELSE 1

\* the tiers of scores.items(), in insertion order
RECURSIVE Items(_, _)
Items(sc, order) ==
    IF order = << >> THEN << >>
    ELSE (IF Head(order) \in DOMAIN sc THEN <<Head(order)>> ELSE << >>)
             \o Items(sc, Tail(order))

\* lines 444-450: total_score and total_weight after the loop over items
RECURSIVE total_score(_, _, _)
total_score(sc, wt, items) ==
    IF items = << >> THEN 0
    ELSE sc[Head(items)] * WeightGet(wt, Head(items))
             + total_score(sc, wt, Tail(items))
RECURSIVE total_weight(_, _)
total_weight(wt, items) ==
    IF items = << >> THEN 0
    ELSE WeightGet(wt, Head(items)) + total_weight(wt, Tail(items))

\* line 452
final_weighted_score(sc, wt) ==
    LET items == Items(sc, TierOrder)
    IN  IF total_weight(wt, items) > 0
        THEN Q(total_score(sc, wt, items), total_weight(wt, items))
        ELSE R(50)

\* lines 454-458 with `< 50` written for `<= 50`
grade_StrictSell(fws) ==
    IF RLe(R(80), fws) THEN "Strong Buy"
    ELSE IF RLe(R(65), fws) THEN "Buy"
    ELSE IF RLe(fws, R(35)) THEN "Strong Sell"
    ELSE IF RLt(fws, R(50)) THEN "Sell"
    ELSE "Hold"

\* lines 454-458
grade(fws) ==
    IF RLe(R(80), fws) THEN "Strong Buy"
    ELSE IF RLe(R(65), fws) THEN "Buy"
    ELSE IF RLe(fws, R(35)) THEN "Strong Sell"
    ELSE IF RLe(fws, R(50)) THEN "Sell"
    ELSE "Hold"

\* line 462 with round() written for int()
final_score_Rounded(sc, wt) ==
    Trunc(RAdd(final_weighted_score(sc, wt), Q(1, 2)))

\* line 462
final_score(sc, wt) == Trunc(final_weighted_score(sc, wt))

\* lines 469 and 471: f"{x:.2%}" raises a ValueError for a string x
FormatRaises(info) ==
    LET short_float == get(info, "shortPercentFloat")
        insider == get(info, "heldPercentInsiders")
    IN  \/ Truthy(short_float) /\ ~IsNum(short_float)
        \/ Truthy(insider) /\ ~IsNum(insider)

---------------------------------------------------------------------------
(* Idle values of the variables a specification does not use.              *)

NoCall == [fn |-> "none"]
NoStore == [access |-> "none"]
NoEnv == [ticker |-> "none"]
NoLoc == [sector |-> "none"]
NoScores == << >>
NoResult == [kind |-> "none"]

---------------------------------------------------------------------------
(* calculate_scores(ticker, live=True) as a sequence of steps.             *)
(*                                                                         *)
(* env is what the providers hold when the call is made, and does not      *)
(* change during it:                                                       *)
(*   ticker, live    the arguments (live = FALSE first reads the store,    *)
(*                   lines 47-60, and goes on at line 62 when that fails)  *)
(*   infoOf[t]       [ok, info]: whether reading yf.Ticker(t).info         *)
(*                   succeeds, and the mapping read                        *)
(*   sector          info.get('sector', 'Unknown') of the ticker           *)
(*   historyOk       whether stock.history(period="1y") succeeds           *)
(*   history, dow    the daily closes and the weekday of the last row      *)
(*   revisions       the upgrades/downgrades of the last 30 days           *)
(*   spy             the aligned benchmark closes                          *)
(*   yahoo, google   the two headline sources; classifier, the pipeline    *)
(* loc holds the locals sector, peers_data and sentiment_data; scores and  *)
(* weights are the two dicts; result is what the call returned, or the     *)
(* exception that left it.                                                 *)

(* The persistence store.  store.access is how the read of lines 49-53     *)
(* goes: "ok", "no_secrets" (st.secrets has no supabase entry),            *)
(* "client_raises" or "query_raises".  store.rows is res.data for the      *)
(* ticker: no row, or one row [tier_matrix, dcf_fair_value,                *)
(* piotroski_score], whose tier_matrix is [shape, items] with shape        *)
(* "absent" (no such column), "None", "list" or "dict" and items the       *)
(* sequence of its <<tier, score>> entries.                                *)

\* line 54: the row is there and its tier_matrix is truthy
RowFound(st) ==
    /\ st.access = "ok"
    /\ st.rows # << >>
    /\ st.rows[1].tier_matrix.shape \in {"list", "dict"}
    /\ st.rows[1].tier_matrix.items # << >>

\* lines 47-60 with the except clause removed
ReadStore_Propagates ==
    /\ pc = "start" /\ ~env.live
    /\ IF RowFound(store) /\ store.rows[1].tier_matrix.shape = "dict"
       THEN /\ result' = [kind |-> "stored",
                          payload |-> store.rows[1].tier_matrix.items,
                          dcf_fair_value |-> store.rows[1].dcf_fair_value,
                          piotroski_score |-> store.rows[1].piotroski_score]
            /\ pc' = "done"
       ELSE IF store.access # "ok" \/ RowFound(store)
       THEN /\ result' = [kind |-> "raised", exception |-> "Exception", line |-> 56]
            /\ pc' = "raised"
       ELSE /\ pc' = "fetch"
            /\ UNCHANGED result
    /\ UNCHANGED <<call, store, env, loc, scores, weights>>

\* lines 47-60: the payload of a stored row is returned when it is a
\* mapping; payload['dcf_fair_value'] = ... on a list raises a TypeError,
\* which the except clause swallows like every failure of the read
ReadStore ==
    /\ pc = "start" /\ ~env.live
    /\ IF RowFound(store) /\ store.rows[1].tier_matrix.shape = "dict"
       THEN /\ result' = [kind |-> "stored",
                          payload |-> store.rows[1].tier_matrix.items,
                          dcf_fair_value |-> store.rows[1].dcf_fair_value,
                          piotroski_score |-> store.rows[1].piotroski_score]
            /\ pc' = "done"
       ELSE /\ pc' = "fetch"
            /\ UNCHANGED result
    /\ UNCHANGED <<call, store, env, loc, scores, weights>>

\* lines 62-106 with the peers fetched before the price history is checked
Fetch_PeersFirst ==
    /\ pc = "fetch" \/ (pc = "start" /\ env.live)
    /\ loc' = [sector |-> env.sector,
               peers_data |-> get_peer_raw(env.ticker, env.sector, env.infoOf),
               sentiment_data |-> [score |-> 0, yahoo_score |-> 0,
                                   google_score |-> 0, headline_count |-> 0]]
    /\ IF ~env.infoOf[env.ticker].ok \/ ~env.historyOk
       THEN /\ result' = [kind |-> "error", error |-> "Failed to fetch data"]
            /\ pc' = "done"
       ELSE IF env.history = << >>
       THEN /\ result' = [kind |-> "error", error |-> "No price data found"]
            /\ pc' = "done"
       ELSE /\ pc' = "tier1"
            /\ UNCHANGED result
    /\ UNCHANGED <<call, store, env, scores, weights>>

Fetch ==
    /\ pc = "fetch" \/ (pc = "start" /\ env.live)
    /\ IF ~env.infoOf[env.ticker].ok \/ ~env.historyOk
       THEN /\ result' = [kind |-> "error", error |-> "Failed to fetch data"]
            /\ pc' = "done"
            /\ UNCHANGED loc
       ELSE IF env.history = << >>
       THEN /\ result' = [kind |-> "error", error |-> "No price data found"]
            /\ pc' = "done"
            /\ UNCHANGED loc
       ELSE /\ loc' = [sector |-> env.sector,
                       peers_data |-> get_peer_raw(env.ticker, env.sector, env.infoOf),
                       sentiment_data |-> [score |-> 0, yahoo_score |-> 0,
                                           google_score |-> 0, headline_count |-> 0]]
            /\ pc' = "tier1"
            /\ UNCHANGED result
    /\ UNCHANGED <<call, store, env, scores, weights>>

info == env.infoOf[env.ticker].info

\* a tier that records its score and forgets its weight
SetTier_NoWeight(label, score, next) ==
    /\ scores' = Put(scores, label, score)
    /\ weights' = weights
    /\ pc' = next

\* scores[label] = score; weights[label] = its weight; go on to the next step
SetTier(label, score, next) ==
    /\ scores' = Put(scores, label, score)
    /\ weights' = Put(weights, label, WeightTable[label])
    /\ pc' = next

Tier1 ==
    /\ pc = "tier1"
    /\ SetTier("Tier 1: Valuation", TierMean(scores_t1(info, loc.peers_data)), "tier2")
    /\ UNCHANGED <<call, store, env, loc, result>>

Tier2 ==
    /\ pc = "tier2"
    /\ SetTier("Tier 2: Intrinsic/Alpha",
               TierMean(scores_t2(info, env.history[Len(env.history)], env.revisions)),
               "tier3")
    /\ UNCHANGED <<call, store, env, loc, result>>

Tier3 ==
    /\ pc = "tier3"
    /\ SetTier("Tier 3: Growth", TierMean(scores_t3(info)), "tier4")
    /\ UNCHANGED <<call, store, env, loc, result>>

Tier4 ==
    /\ pc = "tier4"
    /\ SetTier("Tier 4: Efficiency", TierMean(scores_t4(info, loc.peers_data)), "tier5")
    /\ UNCHANGED <<call, store, env, loc, result>>

Tier5 ==
    /\ pc = "tier5"
    /\ SetTier("Tier 5: Financial Health", TierMean(scores_t5(info, loc.sector)), "tier6")
    /\ UNCHANGED <<call, store, env, loc, result>>

Tier6 ==
    /\ pc = "tier6"
    /\ SetTier("Tier 6: Forensics", Trunc(s_forensics(info, loc.sector)), "tier7")
    /\ UNCHANGED <<call, store, env, loc, result>>

Tier7 ==
    /\ pc = "tier7"
    /\ IF MktCapRaises(info)
       THEN /\ result' = [kind |-> "raised", exception |-> "TypeError", line |-> 304]
            /\ pc' = "raised"
            /\ UNCHANGED <<scores, weights>>
       ELSE /\ SetTier("Tier 7: Management", s_mgmt(info), "tier8")
            /\ UNCHANGED result
    /\ UNCHANGED <<call, store, env, loc>>

Tier8 ==
    /\ pc = "tier8"
    /\ SetTier("Tier 8: Capital Flow", TierMean(scores_t8(info)), "tier9")
    /\ UNCHANGED <<call, store, env, loc, result>>

Tier9 ==
    /\ pc = "tier9"
    /\ SetTier("Tier 9: Total Yield", s_yield(info), "tier10")
    /\ UNCHANGED <<call, store, env, loc, result>>

Tier10 ==
    /\ pc = "tier10"
    /\ SetTier("Tier 10: Timing", s_timing(env.history, env.dow), "tier11")
    /\ UNCHANGED <<call, store, env, loc, result>>

Tier11 ==
    /\ pc = "tier11"
    /\ LET sentiment_data == get_consensus_sentiment(env.yahoo, env.google, env.classifier)
       IN  /\ loc' = [loc EXCEPT !.sentiment_data = sentiment_data]
           /\ SetTier("Tier 11: Sentiment", sentiment_data.score, "tier12")
    /\ UNCHANGED <<call, store, env, result>>

Tier12 ==
    /\ pc = "tier12"
    /\ SetTier("Tier 12: Derivatives", TierMean(scores_t12(info)), "rs")
    /\ UNCHANGED <<call, store, env, loc, result>>

\* lines 415-441
RelativeStrength ==
    /\ pc = "rs"
    /\ scores' = [scores EXCEPT !["Tier 10: Timing"] =
                     timing_with_rs(scores["Tier 10: Timing"], env.history, env.spy)]
    /\ pc' = "aggregate"
    /\ UNCHANGED <<call, store, env, loc, weights, result>>

\* lines 443-482 with the composite taken before the relative-strength
\* step: the weighted mean sees the provisional Timing score
Aggregate_ProvisionalTiming ==
    /\ pc = "aggregate"
    /\ LET early == [scores EXCEPT !["Tier 10: Timing"] = s_timing(env.history, env.dow)]
       IN  IF FormatRaises(info)
           THEN /\ result' = [kind |-> "raised", exception |-> "ValueError", line |-> 469]
                /\ pc' = "raised"
           ELSE /\ result' = [kind |-> "result",
                              final_grade |-> grade(final_weighted_score(early, weights)),
                              final_score |-> final_score(early, weights),
                              breakdown |-> scores,
                              metrics |-> [PEG |-> PegRatio(info),
                                           yahoo_score |-> loc.sentiment_data.yahoo_score,
                                           google_score |-> loc.sentiment_data.google_score,
                                           Headlines |-> loc.sentiment_data.headline_count],
                              sector |-> loc.sector,
                              company_name |-> env.ticker,
                              current_price |-> env.history[Len(env.history)],
                              news_headlines |-> source_headlines(env.yahoo)
                                                    \o source_headlines(env.google)]
                /\ pc' = "done"
    /\ UNCHANGED <<call, store, env, loc, scores, weights>>

\* lines 443-482
Aggregate ==
    /\ pc = "aggregate"
    /\ IF FormatRaises(info)
       THEN /\ result' = [kind |-> "raised", exception |-> "ValueError", line |-> 469]
            /\ pc' = "raised"
       ELSE /\ result' = [kind |-> "result",
                          final_grade |-> grade(final_weighted_score(scores, weights)),
                          final_score |-> final_score(scores, weights),
                          breakdown |-> scores,
                          metrics |-> [PEG |-> PegRatio(info),
                                       yahoo_score |-> loc.sentiment_data.yahoo_score,
                                       google_score |-> loc.sentiment_data.google_score,
                                       Headlines |-> loc.sentiment_data.headline_count],
                          sector |-> loc.sector,
                          company_name |-> env.ticker,
                          current_price |-> env.history[Len(env.history)],
                          news_headlines |-> source_headlines(env.yahoo)
                                                \o source_headlines(env.google)]
            /\ pc' = "done"
    /\ UNCHANGED <<call, store, env, loc, scores, weights>>

Next ==
    \/ Fetch
    \/ Tier1 \/ Tier2 \/ Tier3 \/ Tier4 \/ Tier5 \/ Tier6
    \/ Tier7 \/ Tier8 \/ Tier9 \/ Tier10 \/ Tier11 \/ Tier12
    \/ RelativeStrength
    \/ Aggregate

---------------------------------------------------------------------------
(* calculate_scores from line 62 on as a function of the snapshot e: the   *)
(* score every tier ends with, and the outcome of the call.                *)

LiveTier(e, t) ==
    LET i == e.infoOf[e.ticker].info
        peers_data == get_peer_raw(e.ticker, e.sector, e.infoOf)
    IN  CASE t = "Tier 1: Valuation" -> TierMean(scores_t1(i, peers_data))
          [] t = "Tier 2: Intrinsic/Alpha" ->
                TierMean(scores_t2(i, e.history[Len(e.history)], e.revisions))
          [] t = "Tier 3: Growth" -> TierMean(scores_t3(i))
          [] t = "Tier 4: Efficiency" -> TierMean(scores_t4(i, peers_data))
          [] t = "Tier 5: Financial Health" -> TierMean(scores_t5(i, e.sector))
          [] t = "Tier 6: Forensics" -> Trunc(s_forensics(i, e.sector))
          [] t = "Tier 7: Management" -> s_mgmt(i)
          [] t = "Tier 8: Capital Flow" -> TierMean(scores_t8(i))
          [] t = "Tier 9: Total Yield" -> s_yield(i)
          [] t = "Tier 10: Timing" ->
                timing_with_rs(s_timing(e.history, e.dow), e.history, e.spy)
          [] t = "Tier 11: Sentiment" ->
                get_consensus_sentiment(e.yahoo, e.google, e.classifier).score
          [] t = "Tier 12: Derivatives" -> TierMean(scores_t12(i))

LiveOutcome(e) ==
    LET i == e.infoOf[e.ticker].info
        sc == [t \in TierLabels |-> LiveTier(e, t)]
        sentiment_data == get_consensus_sentiment(e.yahoo, e.google, e.classifier)
    IN  IF ~e.infoOf[e.ticker].ok \/ ~e.historyOk
        THEN [kind |-> "error", error |-> "Failed to fetch data"]
        ELSE IF e.history = << >>
        THEN [kind |-> "error", error |-> "No price data found"]
        ELSE IF MktCapRaises(i)
        THEN [kind |-> "raised", exception |-> "TypeError", line |-> 304]
        ELSE IF FormatRaises(i)
        THEN [kind |-> "raised", exception |-> "ValueError", line |-> 469]
        ELSE [kind |-> "result",
              final_grade |-> grade(final_weighted_score(sc, WeightTable)),
              final_score |-> final_score(sc, WeightTable),
              breakdown |-> sc,
              metrics |-> [PEG |-> PegRatio(i),
                           yahoo_score |-> sentiment_data.yahoo_score,
                           google_score |-> sentiment_data.google_score,
                           Headlines |-> sentiment_data.headline_count],
              sector |-> e.sector,
              company_name |-> e.ticker,
              current_price |-> e.history[Len(e.history)],
              news_headlines |-> source_headlines(e.yahoo)
                                    \o source_headlines(e.google)]

---------------------------------------------------------------------------
(* The provider snapshots Spec starts from.  Each is one of four base      *)
(* snapshots with one part of it varied: the keys one tier reads, the      *)
(* sector and ticker, the peers' mappings, the price history and           *)
(* benchmark, the revisions, the headline sources, or a failing fetch.     *)

\* the factor of the very large sample of every metric
Extreme == 1000
\* the rows of a full year of price history
YearRows == 250

\* two plausible values <<n1, d1, n2, d2>> of every metric
KeyTyp ==
    [k \in InfoKeys |->
        CASE k = "enterpriseToEbitda" -> <<12, 1, 25, 1>>
          [] k = "trailingPE" -> <<20, 1, 40, 1>>
          [] k = "priceToBook" -> <<3, 1, 8, 1>>
          [] k = "pegRatio" -> <<6, 5, 2, 1>>
          [] k = "priceToSalesTrailing12Months" -> <<5, 1, 8, 1>>
          [] k = "earningsGrowth" -> <<16, 100, 5, 100>>
          [] k = "forwardPE" -> <<18, 1, 30, 1>>
          [] k = "targetMeanPrice" -> <<130, 1, 101, 1>>
          [] k = "revenueGrowth" -> <<16, 100, 4, 100>>
          [] k = "returnOnEquity" -> <<25, 100, 12, 100>>
          [] k = "profitMargins" -> <<20, 100, 7, 100>>
          [] k = "operatingMargins" -> <<22, 100, 9, 100>>
          [] k = "payoutRatio" -> <<30, 100, 90, 100>>
          [] k = "currentRatio" -> <<18, 10, 12, 10>>
          [] k = "debtToEquity" -> <<80, 1, 140, 1>>
          [] k = "operatingCashflow" -> <<12, 1, 5, 1>>
          [] k = "netIncomeToCommon" -> <<10, 1, 4, 1>>
          [] k = "returnOnAssets" -> <<1, 100, 2, 100>>
          [] k = "heldPercentInsiders" -> <<5, 100, 5, 10000>>
          [] k = "marketCap" -> <<50, 1, 2000, 1>>
          [] k = "volume" -> <<12, 1, 5, 1>>
          [] k = "averageVolume" -> <<10, 1, 8, 1>>
          [] k = "heldPercentInstitutions" -> <<60, 100, 30, 100>>
          [] k = "dividendYield" -> <<2, 100, 1, 100>>
          [] k = "beta" -> <<11, 10, 15, 10>>
          [] k = "shortPercentFloat" -> <<3, 100, 10, 100>>
          [] k = "currentPrice" -> <<100, 1, 90, 1>>]

Typ(k) == Num(KeyTyp[k][1], KeyTyp[k][2])
Alt(k) == Num(KeyTyp[k][3], KeyTyp[k][4])

\* every shape a metric can take: absent, None, a string that does not
\* parse, one that does, zero, a negative, two plausible and an extreme value
Shapes == {"absent", "None", "badstr", "str", "zero", "neg", "typ", "alt", "extreme"}
FewShapes == {"absent", "neg", "alt"}

Shaped(k, shape) ==
    CASE shape = "absent" -> Absent
      [] shape = "None" -> None
      [] shape = "badstr" -> BadStr
      [] shape = "str" -> Str(KeyTyp[k][1], KeyTyp[k][2])
      [] shape = "zero" -> Num(0, 1)
      [] shape = "neg" -> Num(-KeyTyp[k][1], KeyTyp[k][2])
      [] shape = "typ" -> Typ(k)
      [] shape = "alt" -> Alt(k)
      [] shape = "extreme" -> Num(Extreme * KeyTyp[k][1], KeyTyp[k][2])

EmptyInfo == [k \in InfoKeys |-> Absent]

\* every tier at its neutral 50: only the dividend yield is present
NeutralInfo == [EmptyInfo EXCEPT !["dividendYield"] = Num(2, 100)]

\* the mapping behind the scenario of the twelve scores
\* 90, 90, 80, 90, 80, 50, 50, 50, 0, 50, 50, 50
ScenarioInfo ==
    [EmptyInfo EXCEPT !["pegRatio"] = Num(6, 5),
                      !["targetMeanPrice"] = Num(150, 1),
                      !["revenueGrowth"] = Num(16, 100),
                      !["returnOnEquity"] = Num(25, 100),
                      !["profitMargins"] = Num(20, 100),
                      !["currentRatio"] = Num(18, 10),
                      !["dividendYield"] = Num(0, 1)]

\* every metric present with a plausible value
TypicalInfo == [k \in InfoKeys |-> Typ(k)]

BaseInfos == {EmptyInfo, NeutralInfo, ScenarioInfo, TypicalInfo}

\* the keys each tier reads
KeyGroups ==
    {{"targetMeanPrice"},
     {"revenueGrowth", "earningsGrowth"},
     {"returnOnEquity", "profitMargins", "operatingMargins"},
     {"currentRatio", "debtToEquity"},
     {"operatingCashflow", "netIncomeToCommon", "returnOnAssets"},
     {"heldPercentInsiders", "marketCap"},
     {"volume", "averageVolume", "heldPercentInstitutions"},
     {"dividendYield"},
     {"beta", "shortPercentFloat"}}

ValuationKeys ==
    {"pegRatio", "trailingPE", "earningsGrowth", "priceToSalesTrailing12Months",
     "enterpriseToEbitda", "forwardPE"}

\* base with every key k of f given the shape f[k]
Override(base, f) ==
    [k \in InfoKeys |-> IF k \in DOMAIN f THEN Shaped(k, f[k]) ELSE base[k]]

\* ---- the peers' mappings ----

PeerInfoA ==
    [EmptyInfo EXCEPT !["trailingPE"] = Num(15, 1), !["forwardPE"] = Num(14, 1),
                      !["enterpriseToEbitda"] = Num(10, 1),
                      !["profitMargins"] = Num(5, 100),
                      !["returnOnEquity"] = Num(10, 100),
                      !["pegRatio"] = Num(15, 10),
                      !["priceToSalesTrailing12Months"] = Num(3, 1),
                      !["currentPrice"] = Num(50, 1), !["marketCap"] = Num(300, 1)]

\* no pegRatio: the PEG comes from earningsGrowth
PeerInfoB ==
    [EmptyInfo EXCEPT !["trailingPE"] = Num(30, 1), !["forwardPE"] = Num(25, 1),
                      !["enterpriseToEbitda"] = Num(20, 1),
                      !["profitMargins"] = Num(10, 100),
                      !["returnOnEquity"] = Num(15, 100),
                      !["earningsGrowth"] = Num(20, 100),
                      !["priceToSalesTrailing12Months"] = Num(6, 1)]

\* a loss-making peer: negative P/E and EV/EBITDA, PEG from revenueGrowth
PeerInfoC ==
    [EmptyInfo EXCEPT !["trailingPE"] = Num(-40, 1), !["forwardPE"] = Num(50, 1),
                      !["enterpriseToEbitda"] = Num(-5, 1),
                      !["profitMargins"] = Num(30, 100),
                      !["returnOnEquity"] = Num(20, 100),
                      !["earningsGrowth"] = Num(-10, 100),
                      !["revenueGrowth"] = Num(30, 100),
                      !["priceToSalesTrailing12Months"] = Num(10, 1)]

\* string-valued metrics; the pegRatio is present
PeerInfoD ==
    [EmptyInfo EXCEPT !["trailingPE"] = Str(22, 1), !["forwardPE"] = BadStr,
                      !["enterpriseToEbitda"] = Str(-3, 1),
                      !["profitMargins"] = Str(12, 100),
                      !["returnOnEquity"] = BadStr,
                      !["pegRatio"] = Str(2, 1),
                      !["priceToSalesTrailing12Months"] = Str(4, 1)]

\* no trailing P/E and no margins: the fallbacks of lines 50 and 54, and the
\* PEG from the sustainable growth rate
PeerInfoE ==
    [EmptyInfo EXCEPT !["forwardPE"] = Num(12, 1),
                      !["operatingMargins"] = Num(25, 100),
                      !["returnOnEquity"] = Num(30, 100),
                      !["payoutRatio"] = Num(50, 100)]

\* a string P/E with the PEG fallback: pe / (g_earn * 100) raises
PeerInfoF ==
    [EmptyInfo EXCEPT !["trailingPE"] = Str(22, 1),
                      !["earningsGrowth"] = Num(10, 100),
                      !["returnOnEquity"] = Num(18, 100)]

Failing == [ok |-> FALSE, info |-> EmptyInfo]
Source(i) == [ok |-> TRUE, info |-> i]

PeerSources ==
    {Failing, Source(EmptyInfo), Source(PeerInfoA), Source(PeerInfoB),
     Source(PeerInfoC), Source(PeerInfoD), Source(PeerInfoE), Source(PeerInfoF)}

\* the base peers: three peers with data, the others failing
BasePeers == <<Source(PeerInfoA), Source(PeerInfoB), Source(PeerInfoC),
               Failing, Failing, Failing>>

\* how many of the six peers take every source in turn
VariedPeers == 2

PeerAssignments ==
    {[i \in 1..6 |-> IF i <= VariedPeers THEN f[i] ELSE rest] :
        f \in [1..VariedPeers -> PeerSources], rest \in {Failing, Source(PeerInfoA)}}

RECURSIVE IndexOf(_, _)
IndexOf(seq, t) == IF Head(seq) = t THEN 1 ELSE 1 + IndexOf(Tail(seq), t)

\* the provider's entries for the ticker and its peers
Provider(ticker, sector, target, peers) ==
    LET ps == get_peers(ticker, sector)
    IN  [t \in {ticker} \cup {ps[i] : i \in 1..Len(ps)} |->
            IF t = ticker THEN target ELSE peers[IndexOf(ps, t)]]

\* ---- price histories ----

\* n closes of a given shape, all positive
Closes(n, shape) ==
    [i \in 1..n |->
        CASE shape = "flat" -> 100
          [] shape = "up" -> 100 + i
          [] shape = "down" -> 400 - i
          [] shape = "zigzag" -> 100 + 3 * (i % 2)
          [] shape = "dip" -> IF i > n - 10 THEN 100 + i - 30 ELSE 100 + i
          [] shape = "slowup" -> 100 + ((i % 3) * 2) + (i \div 5)]

HistoryShapes == {"flat", "up", "down", "zigzag", "dip", "slowup"}
HistoryLengths == {1, 15, 16, 49, 50, 60, 61, 75, 76, 80, 199, 200, YearRows}

Revisions ==
    {<<"raises", 0, 0>>, <<"None", 0, 0>>, <<"ok", 0, 0>>, <<"ok", 4, 1>>,
     <<"ok", 3, 0>>, <<"ok", 0, 2>>, <<"ok", 1, 2>>}

Benchmarks == {<<"raises", 0, 0>>, <<"ok", 500, 500>>, <<"ok", 500, 400>>,
               <<"ok", 400, 500>>, <<"ok", 505, 500>>}

Headlines ==
    {<< >>,
     <<<<"positive", 100>>, <<"positive", 100>>>>,
     <<<<"positive", 80>>, <<"neutral", 90>>, <<"negative", 95>>>>,
     <<<<"negative", 99>>>>,
     <<<<"positive", 60>>, <<"positive", 70>>, <<"neutral", 50>>, <<"neutral", 50>>,
       <<"positive", 99>>, <<"negative", 80>>>>}

HeadlineSources == {[ok |-> FALSE, heads |-> << >>]} \cup {[ok |-> TRUE, heads |-> h] : h \in Headlines}

Sectors ==
    {"Unknown", "Technology", "Financial Services", "Energy", "Healthcare",
     "Consumer Cyclical", "Industrials", "Consumer Defensive",
     "Communication Services", "Basic Materials", "Real Estate", "Utilities"}

\* a ticker of no list, one of the Technology list, one of the index list
Tickers == {"ZZZZ", "NVDA", "SPY"}

\* the snapshot around a mapping of the ticker: Technology, three peers with
\* data, ten rows of history, 4 upgrades and 1 downgrade, no headlines
BaseEnv(i) ==
    [ticker |-> "ZZZZ", live |-> TRUE, sector |-> "Technology",
     infoOf |-> Provider("ZZZZ", "Technology", Source(i), BasePeers),
     historyOk |-> TRUE, history |-> Closes(10, "flat"), dow |-> 5,
     revisions |-> IF i = ScenarioInfo THEN <<"ok", 4, 1>> ELSE <<"ok", 0, 0>>,
     spy |-> <<"ok", 500, 500>>,
     yahoo |-> [ok |-> TRUE, heads |-> << >>],
     google |-> [ok |-> TRUE, heads |-> << >>],
     classifier |-> "ok"]

\* the base snapshot with the provider's entries rebuilt around (t, sec)
WithProvider(e, t, sec, target, peers) ==
    [e EXCEPT !.ticker = t, !.sector = sec,
              !.infoOf = Provider(t, sec, target, peers)]

\* the keys of Tier 5 and of Tier 6, whose limits depend on the sector
SectorKeyGroups ==
    {{"currentRatio", "debtToEquity"},
     {"operatingCashflow", "netIncomeToCommon", "returnOnAssets"}}

\* six peers that all answer
OkPeers == <<Source(PeerInfoA), Source(PeerInfoB), Source(PeerInfoC),
             Source(PeerInfoD), Source(PeerInfoE), Source(PeerInfoA)>>

\* a snapshot in which every ancillary source answers: six peers, eighty
\* rows of history, revisions, the benchmark and both headline sources
FullEnv(i) ==
    [WithProvider(BaseEnv(i), "ZZZZ", "Technology", Source(i), OkPeers)
        EXCEPT !.history = Closes(80, "dip"),
               !.revisions = <<"ok", 4, 1>>,
               !.spy = <<"ok", 505, 500>>,
               !.yahoo = [ok |-> TRUE,
                          heads |-> <<<<"positive", 100>>, <<"positive", 100>>>>],
               !.google = [ok |-> TRUE,
                           heads |-> <<<<"positive", 80>>, <<"neutral", 90>>,
                                       <<"negative", 95>>>>]]

AncillarySources == {"nothing", "revisions", "spy", "yahoo", "google", "classifier"}

\* FullEnv(i) with the ancillary source x failing
OneFailure(i, x) ==
    CASE x = "nothing" -> FullEnv(i)
      [] x = "revisions" -> [FullEnv(i) EXCEPT !.revisions = <<"raises", 0, 0>>]
      [] x = "spy" -> [FullEnv(i) EXCEPT !.spy = <<"raises", 0, 0>>]
      [] x = "yahoo" -> [FullEnv(i) EXCEPT !.yahoo = [ok |-> FALSE, heads |-> << >>]]
      [] x = "google" -> [FullEnv(i) EXCEPT !.google = [ok |-> FALSE, heads |-> << >>]]
      [] x = "classifier" -> [FullEnv(i) EXCEPT !.classifier = "raises"]

\* env is a base snapshot with one part varied
EnvChoice(e) ==
    \E b \in BaseInfos :
        \* the keys of one tier, over every shape
        \/ \E g \in KeyGroups : \E f \in [g -> Shapes] :
              e = BaseEnv(Override(b, f))
        \* the six keys of Tier 1: together over three shapes, and one at a
        \* time over every shape
        \/ \E f \in [ValuationKeys -> FewShapes] : e = BaseEnv(Override(b, f))
        \/ \E k \in ValuationKeys : \E f \in [{k} -> Shapes] :
              e = BaseEnv(Override(b, f))
        \* the sector and the ticker
        \/ \E sec \in Sectors, t \in Tickers :
              e = WithProvider(BaseEnv(b), t, sec, Source(b), BasePeers)
        \/ \E g \in SectorKeyGroups : \E f \in [g -> Shapes] :
              e = WithProvider(BaseEnv(Override(b, f)), "ZZZZ", "Financial Services",
                               Source(Override(b, f)), BasePeers)
        \* the peers
        \/ \E a \in PeerAssignments :
              e = WithProvider(BaseEnv(b), "ZZZZ", "Technology", Source(b), a)
        \* the price history and the benchmark
        \/ \E n \in HistoryLengths, sh \in HistoryShapes, d \in {3, 5},
              spy \in Benchmarks :
              e = [BaseEnv(b) EXCEPT !.history = Closes(n, sh), !.dow = d, !.spy = spy]
        \* the revisions
        \/ \E r \in Revisions : e = [BaseEnv(b) EXCEPT !.revisions = r]
        \* the headline sources and the classifier
        \/ \E y \in HeadlineSources, g \in HeadlineSources,
              c \in {"none", "ok", "raises"} :
              e = [BaseEnv(b) EXCEPT !.yahoo = y, !.google = g, !.classifier = c]
        \* every ancillary source answering, or all but one
        \/ \E x \in AncillarySources : e = OneFailure(b, x)
        \* a failing fetch of the ticker's own data
        \/ e = WithProvider(BaseEnv(b), "ZZZZ", "Technology", Failing, BasePeers)
        \/ e = [BaseEnv(b) EXCEPT !.historyOk = FALSE]
        \/ e = [BaseEnv(b) EXCEPT !.history = << >>]

Init ==
    /\ pc = "start"
    /\ call = NoCall
    /\ store = NoStore
    /\ EnvChoice(env)
    /\ loc = NoLoc
    /\ scores = NoScores
    /\ weights = NoScores
    /\ result = NoResult

Spec == Init /\ [][Next]_vars

---------------------------------------------------------------------------
(* SpecStore: the store between run_quant_engine, which writes a ticker's  *)
(* row from calculate_scores(t), and the application, which afterwards     *)
(* calls calculate_scores(ticker) with live = False.                       *)
(* call is [fn, step, written, first]: who made the current call of        *)
(* calculate_scores, where the caller stands, whether the cron upserted    *)
(* its record, and the outcome of the cron's call.                         *)

\* the tickers of run_quant_engine
CronTickers ==
    {"AAPL", "MSFT", "NVDA", "ADBE", "ORCL", "CRM", "AMD", "JPM", "BAC", "GS",
     "XOM", "CVX", "JNJ", "UNH", "AMZN", "TSLA"}

\* line 141: [{"tier": k, "score": v} for k, v in breakdown.items()]
TiersOf(breakdown) ==
    LET items == Items(breakdown, TierOrder)
    IN  [i \in 1..Len(items) |-> <<items[i], breakdown[items[i]]>>]

\* the DCF fair values calculate_dcf may give (None when it cannot)
DcfValues == {None, Num(120, 1)}

\* lines 130-173 for the ticker after calculate_scores(t) has ended at
\* line 138.  An exception of calculate_scores, or of a later step of the
\* loop body, skips the ticker; the upsert of line 172 may fail as well.
RunQuantEngine ==
    /\ pc \in {"done", "raised"}
    /\ call.fn = "run_quant_engine" /\ call.step = "scoring"
    /\ \E restOk \in BOOLEAN, dcf \in DcfValues :
          LET tiers == IF result.kind = "result" THEN TiersOf(result.breakdown)
                       ELSE << >>
              record == [tier_matrix |-> [shape |-> "list", items |-> tiers],
                         dcf_fair_value |-> dcf,
                         piotroski_score |-> Num(5, 1)]
              written == restOk /\ result.kind # "raised"
          IN  /\ store' = IF written THEN [store EXCEPT !.rows = <<record>>]
                          ELSE store
              /\ call' = [call EXCEPT !.step = "finished", !.written = written,
                                      !.first = result]
    /\ pc' = "idle"
    /\ UNCHANGED <<env, loc, scores, weights, result>>

\* what the providers hold when the application asks: the same data, or
\* one more trading day with a higher close
Moves(e) ==
    {e, [e EXCEPT !.history = IF e.history = << >> THEN e.history
                               ELSE Append(e.history, e.history[Len(e.history)] + 30)]}

\* app.py line 141: calculate_scores(ticker), live = False by default
Recall ==
    /\ pc = "idle"
    /\ call.fn = "run_quant_engine" /\ call.step = "finished"
    /\ call' = [call EXCEPT !.fn = "app", !.step = "reading"]
    /\ env' \in Moves(env)
    /\ pc' = "start"
    /\ loc' = NoLoc
    /\ scores' = NoScores
    /\ weights' = NoScores
    /\ result' = NoResult
    /\ UNCHANGED store

\* a row an earlier run of run_quant_engine left
OldRow ==
    [tier_matrix |-> [shape |-> "list",
                      items |-> TiersOf([t \in TierLabels |-> 50])],
     dcf_fair_value |-> Num(120, 1),
     piotroski_score |-> Num(5, 1)]

\* the rows the table can hold for a ticker
StoredRows ==
    {<< >>,
     <<[OldRow EXCEPT !.tier_matrix = [shape |-> "absent", items |-> << >>]]>>,
     <<[OldRow EXCEPT !.tier_matrix = [shape |-> "None", items |-> << >>]]>>,
     <<[OldRow EXCEPT !.tier_matrix = [shape |-> "list", items |-> << >>]]>>,
     <<OldRow>>}

StoreStates ==
    {[access |-> a, rows |-> << >>] :
        a \in {"no_secrets", "client_raises", "query_raises"}}
        \cup {[access |-> "ok", rows |-> r] : r \in StoredRows}

\* the snapshots of SpecStore: a ticker of the cron's list or another one,
\* with few or many rows of history, and the failures of the fetch and of
\* Tier 7
StoreEnvChoice(e) ==
    \E b \in BaseInfos, t \in {"NVDA", "ZZZZ"} :
        LET base == [WithProvider(BaseEnv(b), t, "Technology", Source(b), BasePeers)
                        EXCEPT !.live = FALSE]
        IN  \/ e = base
            \/ e = [base EXCEPT !.history = Closes(80, "dip"),
                                !.revisions = <<"ok", 4, 1>>,
                                !.yahoo = [ok |-> TRUE,
                                           heads |-> <<<<"positive", 80>>>>]]
            \/ e = [base EXCEPT !.history = << >>]
            \/ e = [base EXCEPT !.infoOf[t] = Failing]
            \/ e = [base EXCEPT !.infoOf[t] =
                        Source([b EXCEPT !["marketCap"] = None])]

StoreInit ==
    /\ pc = "start"
    /\ StoreEnvChoice(env)
    /\ call = [fn |-> IF env.ticker \in CronTickers THEN "run_quant_engine"
                      ELSE "app",
               step |-> IF env.ticker \in CronTickers THEN "scoring" ELSE "reading",
               written |-> FALSE,
               first |-> NoResult]
    /\ store \in StoreStates
    /\ loc = NoLoc
    /\ scores = NoScores
    /\ weights = NoScores
    /\ result = NoResult

StoreNext ==
    \/ ReadStore
    \/ Next
    \/ RunQuantEngine
    \/ Recall

SpecStore == StoreInit /\ [][StoreNext]_vars

---------------------------------------------------------------------------
(* SpecPercentile: get_percentile applied to peer samples and targets      *)
(* drawn from bounded sets.                                                *)

\* the most rows a peer sample has
PctPeers == 3

\* the values of a metric: None, strings, negatives, zero, positives, the
\* penalty of line 123 and a value above it
PctValues ==
    {None, BadStr, Str(-2, 1), Str(3, 1), Num(-5, 1), Num(0, 1), Num(3, 1),
     Num(7, 2), Num(1000000, 1), Num(2000000, 1)}

\* a row of peers_data whose metric P/E is v; the other metrics carry a
\* value of their own
PctRow(j, v) ==
    [Ticker |-> <<"P1", "P2", "P3", "P4", "P5", "P6">>[j],
     m |-> [f \in PeerFields |-> IF f = "P/E" THEN v ELSE Num(9, 1)]]

PctSamples ==
    UNION {{[j \in 1..n |-> PctRow(j, f[j])] : f \in [1..n -> PctValues]} :
              n \in 0..PctPeers}

PctInit ==
    /\ pc = "get_percentile"
    /\ call \in {[fn |-> "get_percentile", peers_data |-> ps, metric_key |-> "P/E",
                  target_val |-> t, invert |-> inv, out |-> R(-1)] :
                    ps \in PctSamples, t \in PctValues, inv \in BOOLEAN}
    /\ store = NoStore
    /\ env = NoEnv
    /\ loc = NoLoc
    /\ scores = NoScores
    /\ weights = NoScores
    /\ result = NoResult

PercentileCall ==
    /\ pc = "get_percentile"
    /\ pc' = "returned"
    /\ call' = [call EXCEPT !.out =
                   get_percentile(call.peers_data, call.metric_key,
                                  call.target_val, call.invert)]
    /\ UNCHANGED <<store, env, loc, scores, weights, result>>

PctNext == PercentileCall

SpecPercentile == PctInit /\ [][PctNext]_vars

---------------------------------------------------------------------------
(* SpecConsensus: get_consensus_sentiment applied to headline sources      *)
(* drawn from bounded sets.                                                *)

\* the most headlines of a drawn source (besides the lists of Headlines)
MaxHeads == 2

Classified ==
    {<<"positive", 100>>, <<"positive", 80>>, <<"neutral", 90>>, <<"negative", 95>>}

ConsHeadlines ==
    Headlines \cup UNION {[1..n -> Classified] : n \in 0..MaxHeads}

ConsSources ==
    {[ok |-> FALSE, heads |-> << >>]}
        \cup {[ok |-> TRUE, heads |-> h] : h \in ConsHeadlines}

ConsInit ==
    /\ pc = "get_consensus_sentiment"
    /\ call \in {[fn |-> "get_consensus_sentiment", yahoo |-> y, google |-> g,
                  classifier |-> c,
                  out |-> [score |-> -1, yahoo_score |-> -1, google_score |-> -1,
                           headline_count |-> -1]] :
                    y \in ConsSources, g \in ConsSources,
                    c \in {"none", "ok", "raises"}}
    /\ store = NoStore
    /\ env = NoEnv
    /\ loc = NoLoc
    /\ scores = NoScores
    /\ weights = NoScores
    /\ result = NoResult

ConsensusCall ==
    /\ pc = "get_consensus_sentiment"
    /\ pc' = "returned"
    /\ call' = [call EXCEPT !.out =
                   get_consensus_sentiment(call.yahoo, call.google, call.classifier)]
    /\ UNCHANGED <<store, env, loc, scores, weights, result>>

ConsNext == ConsensusCall

SpecConsensus == ConsInit /\ [][ConsNext]_vars

---------------------------------------------------------------------------
(* SpecNormalize: normalize applied to inputs drawn from bounded sets.     *)

NormRange == 6
NormDen == 2

NormValues ==
    {None, BadStr}
        \cup {Num(n, d) : n \in -NormRange..NormRange, d \in 1..NormDen}
        \cup {Str(n, d) : n \in -NormRange..NormRange, d \in 1..NormDen}

NormLimits == {Q(n, d) : n \in -1..4, d \in 1..NormDen}

NormInit ==
    /\ pc = "normalize"
    /\ call \in {[fn |-> "normalize", value |-> v, min_val |-> lo, max_val |-> hi,
                  invert |-> inv, out |-> Raised("pending")] :
                    v \in NormValues, lo \in NormLimits, hi \in NormLimits,
                    inv \in BOOLEAN}
    /\ store = NoStore
    /\ env = NoEnv
    /\ loc = NoLoc
    /\ scores = NoScores
    /\ weights = NoScores
    /\ result = NoResult

NormalizeCall ==
    /\ pc = "normalize"
    /\ pc' = "returned"
    /\ call' = [call EXCEPT !.out =
                   normalize(call.value, call.min_val, call.max_val, call.invert)]
    /\ UNCHANGED <<store, env, loc, scores, weights, result>>

NormNext == NormalizeCall

SpecNormalize == NormInit /\ [][NormNext]_vars

\* the call of SpecNormalize has returned a number
NormReturned == pc = "returned" /\ call.fn = "normalize"
\* the value passed is a number, or a string that parses to one
NormNumeric == call.value[1] \in {"num", "str"}

\* C6: for every value < 0 (a number or a numeric-looking string) and every
\* min_val < max_val, normalize(value, min_val, max_val, invert=True) returns
\* exactly 0.
C6_NegativeInvertedIsZero ==
    (/\ NormReturned
     /\ call.invert
     /\ NormNumeric
     /\ call.value[2] < 0
     /\ RLt(call.min_val, call.max_val))
        => call.out = Ret(R(0))

\* normalize(-5, 1.0, 3.0, invert=True) has returned 0, and so has it for "-5"
C6_Witness ==
    /\ NormReturned
    /\ call.value \in {Num(-5, 1), Str(-5, 1)}
    /\ call.min_val = R(1)
    /\ call.max_val = R(3)
    /\ call.invert
    /\ call.out = Ret(R(0))

\* C7: normalize(None, min_val, max_val, invert) returns exactly 50 for every
\* min_val and max_val, min_val = max_val included, and both values of invert;
\* it never raises.
C7_NoneIsFifty ==
    (NormReturned /\ IsNone(call.value)) => call.out = Ret(R(50))

\* normalize(None, m, m, invert) has returned 50
C7_Witness ==
    /\ NormReturned
    /\ IsNone(call.value)
    /\ call.min_val = call.max_val
    /\ call.out = Ret(R(50))

\* C8: for every numeric value, every min_val < max_val and both values of
\* invert, normalize returns a number in the closed interval [0, 100].
C8_NormalizeInRange ==
    (NormReturned /\ NormNumeric /\ RLt(call.min_val, call.max_val))
        => /\ IsRet(call.out)
           /\ call.out[2] >= 0
           /\ call.out[2] <= 100 * call.out[3]

\* a value above max_val (raw scale 250) has been clamped to 100
C8_Witness ==
    /\ NormReturned
    /\ call.value = Num(6, 1)
    /\ call.min_val = R(1)
    /\ call.max_val = R(3)
    /\ ~call.invert
    /\ call.out = Ret(R(100))

\* C9: for a number that is not (negative with invert=True) and
\* min_val # max_val, normalize returns
\* clamp((value - min_val) / (max_val - min_val) * 100, 0, 100) when invert is
\* False and 100 minus that when invert is True.  The expected quantity is
\* written in integers over the common denominator of the three arguments:
\* with V, LO, HI the scaled value and limits and S = HI - LO, the scale is
\* 100 * (V - LO) / S.
C9_LinearScale ==
    (/\ NormReturned
     /\ IsNum(call.value)
     /\ ~(call.invert /\ call.value[2] < 0)
     /\ call.min_val # call.max_val)
        => LET V == call.value[2] * call.min_val[2] * call.max_val[2]
               LO == call.min_val[1] * call.value[3] * call.max_val[2]
               HI == call.max_val[1] * call.value[3] * call.min_val[2]
               S == HI - LO
               n == call.out[2]
               m == call.out[3]
               \* the clamped scale is n/m (not inverted) or 100 - n/m (inverted)
               cn == IF call.invert THEN 100 * m - n ELSE n
           IN  /\ IsRet(call.out)
               /\ (V - LO) * S <= 0 => cn = 0
               /\ (V - LO) * S >= S * S => cn = 100 * m
               /\ ((V - LO) * S > 0 /\ (V - LO) * S < S * S)
                     => cn * S = 100 * (V - LO) * m

\* normalize(2.0, 1.0, 3.0, invert=True) has returned 50
C9_Witness ==
    /\ NormReturned
    /\ call.value = Num(2, 1)
    /\ call.min_val = R(1)
    /\ call.max_val = R(3)
    /\ call.invert
    /\ call.out = Ret(R(50))

---------------------------------------------------------------------------
(* Claims about calculate_scores, checked under Spec.                      *)

\* calculate_scores has returned a result that is not the error payload
Returned == pc = "done" /\ result.kind = "result"

\* the twelve scores of the breakdown are all 50
AllFifty == \A t \in TierLabels : result.breakdown[t] = 50

\* sum of score * weight over the twelve tiers, with the weights of the
\* fixed table written out
WeightedTotal(b) ==
    b["Tier 1: Valuation"] * 10 + b["Tier 2: Intrinsic/Alpha"] * 10
        + b["Tier 3: Growth"] * 9 + b["Tier 4: Efficiency"] * 10
        + b["Tier 5: Financial Health"] * 9 + b["Tier 6: Forensics"] * 8
        + b["Tier 7: Management"] * 8 + b["Tier 8: Capital Flow"] * 9
        + b["Tier 9: Total Yield"] * 8 + b["Tier 10: Timing"] * 9
        + b["Tier 11: Sentiment"] * 8 + b["Tier 12: Derivatives"] * 6

\* the first match of the threshold chain on an integer score
GradeOfInt(n) ==
    IF n >= 80 THEN "Strong Buy"
    ELSE IF n >= 65 THEN "Buy"
    ELSE IF n <= 35 THEN "Strong Sell"
    ELSE IF n <= 50 THEN "Sell"
    ELSE "Hold"

\* C1: for every non-error result, final_grade is the first match of
\* >= 80 Strong Buy, >= 65 Buy, <= 35 Strong Sell, <= 50 Sell, else Hold,
\* evaluated against the returned (integer-truncated) final_score.
C1_GradeOfReturnedScore ==
    Returned => result.final_grade = GradeOfInt(result.final_score)

\* C2 as stated: if every one of the twelve tier scores is exactly 50, the
\* result has final_score = 50 and final_grade = Hold.
C2_AllFiftyIsHold ==
    (Returned /\ AllFifty)
        => result.final_score = 50 /\ result.final_grade = "Hold"

\* C2 as amended: if every one of the twelve tier scores is exactly 50, the
\* result has final_score = 50 and final_grade = Sell (50 <= 50 matches the
\* Sell threshold before the Hold default).
C2_AllFiftyIsSell ==
    (Returned /\ AllFifty)
        => result.final_score = 50 /\ result.final_grade = "Sell"

\* a result whose twelve scores are all 50 has been returned
C2_Witness == Returned /\ AllFifty /\ result.final_score = 50

\* C3: in every non-error result each of the twelve breakdown scores is an
\* integer in [0, 100] and final_score is an integer in [0, 100], whatever
\* the raw metrics (present, missing, negative or extreme).
C3_ScoresInRange ==
    Returned
        => /\ \A t \in DOMAIN result.breakdown : result.breakdown[t] \in 0..100
           /\ result.final_score \in 0..100

\* a result computed from a negative or an extreme metric, with a tier at
\* each end of the range
C3_Witness ==
    /\ Returned
    /\ \E k \in InfoKeys : info[k][1] = "num" /\ (info[k][2] < 0 \/ info[k] = Shaped(k, "extreme"))
    /\ \E t \in TierLabels : result.breakdown[t] = 0
    /\ \E t \in TierLabels : result.breakdown[t] = 100

\* C4 as stated: every non-error result has a breakdown with exactly the
\* twelve tier labels, each with its fixed weight (10, 10, 9, 10, 9, 8, 8, 9,
\* 8, 9, 8, 6), so the divisor of the composite is always 110; a tier with no
\* computable input keeps its place with a default score.
C4_DivisorIs110 ==
    Returned
        => /\ DOMAIN result.breakdown = TierLabels
           /\ weights = WeightTable
           /\ total_weight(weights, Items(scores, TierOrder)) = 110

\* C4 as amended: every non-error result has a breakdown with exactly the
\* twelve tier labels, each with its fixed weight (10, 10, 9, 10, 9, 8, 8, 9,
\* 8, 9, 8, 6), so the divisor of the composite is always 104, the sum of
\* those weights; a tier with no computable input keeps its place with a
\* default score and is never removed from the numerator or the denominator.
C4_TwelveTiersFixedWeights ==
    Returned
        => /\ DOMAIN result.breakdown = TierLabels
           /\ Cardinality(DOMAIN result.breakdown) = 12
           /\ weights = WeightTable
           /\ weights["Tier 1: Valuation"] = 10
           /\ weights["Tier 2: Intrinsic/Alpha"] = 10
           /\ weights["Tier 3: Growth"] = 9
           /\ weights["Tier 4: Efficiency"] = 10
           /\ weights["Tier 5: Financial Health"] = 9
           /\ weights["Tier 6: Forensics"] = 8
           /\ weights["Tier 7: Management"] = 8
           /\ weights["Tier 8: Capital Flow"] = 9
           /\ weights["Tier 9: Total Yield"] = 8
           /\ weights["Tier 10: Timing"] = 9
           /\ weights["Tier 11: Sentiment"] = 8
           /\ weights["Tier 12: Derivatives"] = 6
           /\ total_weight(weights, Items(scores, TierOrder)) = 104

\* a result for a ticker whose info mapping is empty: no tier has an input
C4_Witness ==
    /\ Returned
    /\ info = EmptyInfo
    /\ DOMAIN result.breakdown = TierLabels
    /\ result.breakdown["Tier 1: Valuation"] = 50
    /\ result.breakdown["Tier 9: Total Yield"] = 20

\* the scores 90, 90, 80, 90, 80, 50, 50, 50, 0, 50, 50, 50 of the scenario
ScenarioScores(b) ==
    /\ b["Tier 1: Valuation"] = 90 /\ b["Tier 2: Intrinsic/Alpha"] = 90
    /\ b["Tier 3: Growth"] = 80 /\ b["Tier 4: Efficiency"] = 90
    /\ b["Tier 5: Financial Health"] = 80 /\ b["Tier 6: Forensics"] = 50
    /\ b["Tier 7: Management"] = 50 /\ b["Tier 8: Capital Flow"] = 50
    /\ b["Tier 9: Total Yield"] = 0 /\ b["Tier 10: Timing"] = 50
    /\ b["Tier 11: Sentiment"] = 50 /\ b["Tier 12: Derivatives"] = 50

FetchedData ==
    /\ env.infoOf[env.ticker].ok
    /\ env.historyOk
    /\ env.history # << >>

\* C10: for any raw metric mapping (every key absent, None, a number or a
\* string) and any non-empty price history, calculate_scores(ticker,
\* live=True) does not raise and returns a complete result: final_score,
\* final_grade and a 12-entry breakdown.
C10_NeverRaises ==
    (env.live /\ FetchedData)
        => /\ pc # "raised"
           /\ pc = "done" => (result.kind = "result"
                              /\ DOMAIN result.breakdown = TierLabels)


\* the fetch of lines 62-68 fails: reading the ticker's info or its history
\* raises, or the history is empty
FetchFails ==
    \/ ~env.infoOf[env.ticker].ok
    \/ ~env.historyOk
    \/ env.history = << >>

\* C11: if the 1-year price history is empty, or fetching the ticker's info
\* or history raises, calculate_scores returns a mapping whose only key is
\* "error" (kind is the model's tag of the outcome): no breakdown,
\* final_score or final_grade; and it returns before any tier is computed
\* (scores and weights are still empty) and before the peers, the benchmark
\* or the sentiment sources are read (no local after `history` is bound).
C11_ErrorOnlyBeforeAnyTier ==
    (env.ticker # "none" /\ FetchFails /\ pc \notin {"start", "fetch"})
        => /\ pc = "done"
           /\ result.kind = "error"
           /\ DOMAIN result = {"kind", "error"}
           /\ scores = NoScores
           /\ weights = NoScores
           /\ loc = NoLoc

\* a call whose price history came back empty has returned the error mapping
C11_Witness ==
    /\ pc = "done"
    /\ env.infoOf[env.ticker].ok /\ env.historyOk /\ env.history = << >>
    /\ result = [kind |-> "error", error |-> "No price data found"]


\* the peers of the snapshot e whose loop body in get_peer_raw raises
FailingPeers(e) ==
    {t \in (DOMAIN e.infoOf) \ {e.ticker} : ~PeerEntry(t, e.infoOf[t]).ok}

\* the ancillary sources that fail in e, as <<kind, ticker>>
Failures(e) ==
    {<<"peer", t>> : t \in FailingPeers(e)}
        \cup (IF e.revisions[1] = "raises" THEN {<<"revisions", "">>} ELSE {})
        \cup (IF e.spy[1] = "raises" THEN {<<"spy", "">>} ELSE {})
        \cup (IF ~e.yahoo.ok THEN {<<"yahoo", "">>} ELSE {})
        \cup (IF ~e.google.ok THEN {<<"google", "">>} ELSE {})
        \cup (IF e.classifier = "raises" THEN {<<"classifier", "">>} ELSE {})

\* the tiers that read the source x
Consumers(x) ==
    CASE x[1] = "peer" -> {"Tier 1: Valuation", "Tier 4: Efficiency"}
      [] x[1] = "revisions" -> {"Tier 2: Intrinsic/Alpha"}
      [] x[1] = "spy" -> {"Tier 10: Timing"}
      [] OTHER -> {"Tier 11: Sentiment"}

\* the snapshots that differ from e only in that the source x answers
Repaired(e, x) ==
    CASE x[1] = "peer" ->
            {[e EXCEPT !.infoOf[x[2]] = Source(i)] :
                i \in {EmptyInfo, PeerInfoA, PeerInfoB, PeerInfoC, PeerInfoD, PeerInfoE}}
      [] x[1] = "revisions" ->
            {[e EXCEPT !.revisions = r] : r \in Revisions \ {<<"raises", 0, 0>>}}
      [] x[1] = "spy" ->
            {[e EXCEPT !.spy = b] : b \in Benchmarks \ {<<"raises", 0, 0>>}}
      [] x[1] = "yahoo" ->
            {[e EXCEPT !.yahoo = y] : y \in {h \in HeadlineSources : h.ok}}
      [] x[1] = "google" ->
            {[e EXCEPT !.google = g] : g \in {h \in HeadlineSources : h.ok}}
      [] x[1] = "classifier" -> {[e EXCEPT !.classifier = "ok"]}

\* e with the source x answering and carrying nothing: a peer with no
\* metric, no revision in the last 30 days, no headline, no classifier
Silent(e, x) ==
    CASE x[1] = "peer" -> [e EXCEPT !.infoOf[x[2]] = Source(EmptyInfo)]
      [] x[1] = "revisions" -> [e EXCEPT !.revisions = <<"ok", 0, 0>>]
      [] x[1] = "yahoo" -> [e EXCEPT !.yahoo = [ok |-> TRUE, heads |-> << >>]]
      [] x[1] = "google" -> [e EXCEPT !.google = [ok |-> TRUE, heads |-> << >>]]
      [] x[1] = "classifier" -> [e EXCEPT !.classifier = "none"]
      [] OTHER -> e

\* C12: if exactly one ancillary source fails (a peer's info, the
\* upgrades/downgrades, the SPY benchmark, a news source or its classifier
\* raises), calculate_scores still returns a complete result whenever it
\* does with that source answering, and every tier that does not read the
\* failed source has the score it has when the source answers, whatever the
\* answer; the tier that reads it has its neutral contribution: the score it
\* has when the source answers with nothing (for the benchmark: the Timing
\* score before the relative-strength step).
C12_OneFailureIsolated ==
    (pc \in {"done", "raised"} /\ FetchedData /\ Cardinality(Failures(env)) = 1)
        => \A x \in Failures(env) :
              /\ \A e2 \in Repaired(env, x) :
                    LiveOutcome(e2).kind = "result"
                        => /\ Returned
                           /\ DOMAIN result.breakdown = TierLabels
                           /\ \A t \in TierLabels \ Consumers(x) :
                                 result.breakdown[t] = LiveTier(e2, t)
              /\ Returned
                    => \A t \in Consumers(x) :
                          result.breakdown[t] =
                              IF x[1] = "spy" THEN s_timing(env.history, env.dow)
                              ELSE LiveTier(Silent(env, x), t)

\* a result returned with only the benchmark failing, on a history long
\* enough for the relative-strength step, whose Timing score is not the one
\* an answering benchmark gives
C12_Witness ==
    /\ Returned
    /\ Failures(env) = {<<"spy", "">>}
    /\ Len(env.history) > 60
    /\ result.breakdown["Tier 10: Timing"] # 50
    /\ result.breakdown["Tier 10: Timing"]
           # LiveTier([env EXCEPT !.spy = <<"ok", 500, 400>>], "Tier 10: Timing")


---------------------------------------------------------------------------
(* Claims about the store, checked under SpecStore.                        *)

\* the read of lines 47-60 does not return a payload: the secrets, the
\* client or the query fail, there is no row, or the row's tier_matrix is
\* missing, empty or not a mapping
StoreReadFails == ~(RowFound(store) /\ store.rows[1].tier_matrix.shape = "dict")

\* C13: when calculate_scores is called with live=False and the read of the
\* store fails in any way (secrets missing, client creation or query
\* raising, no row for the ticker, a malformed stored record), no exception
\* of the read propagates: the call goes on at line 62 with nothing
\* computed yet, and it ends as the live computation on the same provider
\* data ends, with the same result.
C13_ReadFailureFallsBackToLive ==
    (env.ticker # "none" /\ ~env.live /\ StoreReadFails)
        => /\ pc = "fetch"
                => result = NoResult /\ scores = NoScores /\ loc = NoLoc
           /\ pc \in {"done", "raised"} => result = LiveOutcome(env)
           /\ pc = "raised" => result.line \in {304, 469}

\* a call with live=False, with no secrets for the store, has returned the
\* result of the live computation
C13_Witness ==
    /\ ~env.live
    /\ store.access = "no_secrets"
    /\ Returned
    /\ result.breakdown["Tier 9: Total Yield"] = 20
    /\ result = LiveOutcome(env)

\* the row of the ticker is the record run_quant_engine built from the
\* result out
WrittenFrom(out) ==
    /\ call.written
    /\ out.kind = "result"
    /\ store.rows # << >>
    /\ store.rows[1].tier_matrix.items = TiersOf(out.breakdown)

\* C14: round trip through the store: a record written for a ticker by
\* run_quant_engine (its tier_matrix built from calculate_scores'
\* breakdown), when then found by calculate_scores(ticker, live=False), is
\* returned as the result read from the store, and carries the final_score,
\* final_grade and tier-to-score breakdown of the result it was written
\* from.
C14_StoredRecordIsReturned ==
    (/\ call.fn = "app" /\ call.step = "reading"
     /\ store.access = "ok"
     /\ WrittenFrom(call.first)
     /\ pc \in {"done", "raised"})
        => /\ result.kind = "stored"
           /\ result.final_score = call.first.final_score
           /\ result.final_grade = call.first.final_grade
           /\ result.breakdown = call.first.breakdown


---------------------------------------------------------------------------
(* Claims about get_percentile, checked under SpecPercentile.              *)

\* the call of SpecPercentile has returned
PctReturned == pc = "returned" /\ call.fn = "get_percentile"

\* v is a number, or a string that float() parses
Usable(v) == v[1] \in {"num", "str"}
Negative(v) == Usable(v) /\ v[2] < 0
NonNegative(v) == Usable(v) /\ v[2] >= 0

\* the value of the metric in row j of the sample
PeerVal(j) == call.peers_data[j].m[call.metric_key]
UsablePeers == {j \in 1..Len(call.peers_data) : Usable(PeerVal(j))}

\* the value v as it is ranked, as a pair <<numerator, denominator>>: the
\* penalty 1000000 for a negative value of an inverted metric
Ranked(v) == IF call.invert /\ v[2] < 0 THEN <<1000000, 1>> ELSE <<v[2], v[3]>>
RankedLeq(a, b) == Ranked(a)[1] * Ranked(b)[2] <= Ranked(b)[1] * Ranked(a)[2]
RankedLess(a, b) == Ranked(a)[1] * Ranked(b)[2] < Ranked(b)[1] * Ranked(a)[2]

\* the entries of the ranked multiset (the usable peers and the target)
\* that are <= the target, and the size of the multiset
AtMostTarget == Cardinality({j \in UsablePeers : RankedLeq(PeerVal(j), call.target_val)}) + 1
RankedSize == Cardinality(UsablePeers) + 1

\* C15: get_percentile computes pct = 100 * (number of entries of the
\* ranked multiset that are <= the adjusted target) / (size of the
\* multiset), ties counted on the <= side, and returns pct when
\* invert=False and 100 - pct when invert=True.
C15_WeakPercentile ==
    (PctReturned /\ Usable(call.target_val) /\ UsablePeers # {})
        => IF call.invert
           THEN call.out[1] * RankedSize
                    = call.out[2] * (100 * RankedSize - 100 * AtMostTarget)
           ELSE call.out[1] * RankedSize = call.out[2] * 100 * AtMostTarget

\* an inverted ranking with a tie and a loss-making peer: target 3 against
\* "3", -5 and 0 is at the 75th percentile and scores 25
C15_Witness ==
    /\ PctReturned
    /\ call.invert
    /\ call.target_val = Num(3, 1)
    /\ Len(call.peers_data) = 3
    /\ PeerVal(1) = Str(3, 1) /\ PeerVal(2) = Num(-5, 1) /\ PeerVal(3) = Num(0, 1)
    /\ AtMostTarget = 3 /\ RankedSize = 4
    /\ call.out = R(25)

\* C16: with invert=True, in the adjusted multiset every value that was
\* negative (target or peer) is ordered strictly after every non-negative
\* value, whatever the magnitude of either; hence a negative target never
\* scores higher than a non-negative target would against the same peers,
\* and a non-negative target whose sample has a negative peer scores
\* strictly above 0.
C16_LossesRankWorst ==
    (PctReturned /\ call.invert)
        => LET sample == {PeerVal(j) : j \in UsablePeers}
                            \cup {v \in {call.target_val} : Usable(v)}
           IN  /\ \A a \in sample, b \in sample :
                     (Negative(a) /\ NonNegative(b)) => RankedLess(b, a)
               /\ Negative(call.target_val)
                     => \A t2 \in {v \in PctValues : NonNegative(v)} :
                           RLe(call.out,
                               get_percentile(call.peers_data, call.metric_key, t2, TRUE))
               /\ (NonNegative(call.target_val)
                      /\ \E j \in UsablePeers : Negative(PeerVal(j)))
                     => RLt(R(0), call.out)

\* C17: for a fixed peer sample and invert=False, get_percentile is
\* monotone in the target: for numeric targets t1 <= t2,
\* get_percentile(key, t1, False) <= get_percentile(key, t2, False).
C17_MonotoneInTarget ==
    (PctReturned /\ ~call.invert /\ Usable(call.target_val))
        => \A t2 \in {v \in PctValues : Usable(v)} :
              RLe(Rat(call.target_val), Rat(t2))
                  => RLe(call.out,
                         get_percentile(call.peers_data, call.metric_key, t2, FALSE))

\* a non-inverted ranking that a larger target strictly improves
C17_Witness ==
    /\ PctReturned
    /\ ~call.invert
    /\ call.target_val = Num(0, 1)
    /\ UsablePeers # {}
    /\ RLt(call.out,
           get_percentile(call.peers_data, call.metric_key, Num(7, 2), FALSE))
    /\ RLt(get_percentile(call.peers_data, call.metric_key, Num(-5, 1), FALSE),
           call.out)

\* C18: get_percentile returns exactly 50, for both values of invert,
\* whenever the peer sample is empty, the target is None or a string that
\* does not parse, or no peer carries a usable value for the metric.
C18_NeutralWithoutSample ==
    (PctReturned
        /\ (\/ call.peers_data = << >>
            \/ IsNone(call.target_val)
            \/ call.target_val = BadStr
            \/ UsablePeers = {}))
        => call.out = R(50)

\* a numeric target ranked with invert=True against three rows none of
\* which carries a usable value has come back as 50
C18_Witness ==
    /\ PctReturned
    /\ call.invert
    /\ call.target_val = Num(7, 2)
    /\ Len(call.peers_data) = 3
    /\ UsablePeers = {}
    /\ call.out = R(50)


---------------------------------------------------------------------------
(* Claims about the consensus sentiment, checked under SpecConsensus.      *)

\* the call of SpecConsensus has returned
ConsReturned == pc = "returned" /\ call.fn = "get_consensus_sentiment"

\* the source raises, there is no classifier or it raises, or the source
\* has no headline
Unavailable(source) ==
    \/ ~source.ok
    \/ call.classifier \in {"none", "raises"}
    \/ source.heads = << >>

\* C19: the consensus score is the unweighted mean of the two source
\* scores, truncated to an integer; a source that raises, has no
\* classifier, or returns no headlines contributes exactly 50 instead of
\* propagating the failure, so one source scoring 100 with the other
\* unavailable yields 75.
C19_ConsensusIsMeanWithNeutralDefault ==
    ConsReturned
        => /\ 2 * call.out.score <= call.out.yahoo_score + call.out.google_score
           /\ call.out.yahoo_score + call.out.google_score < 2 * call.out.score + 2
           /\ Unavailable(call.yahoo) => call.out.yahoo_score = 50
           /\ Unavailable(call.google) => call.out.google_score = 50
           /\ (call.out.yahoo_score = 100 /\ Unavailable(call.google))
                 => call.out.score = 75
           /\ (call.out.google_score = 100 /\ Unavailable(call.yahoo))
                 => call.out.score = 75

\* Yahoo with two positive headlines scores 100, Google raises: 75
C19_Witness ==
    /\ ConsReturned
    /\ call.classifier = "ok"
    /\ call.yahoo = [ok |-> TRUE,
                     heads |-> <<<<"positive", 100>>, <<"positive", 100>>>>]
    /\ ~call.google.ok
    /\ call.out.yahoo_score = 100
    /\ call.out.google_score = 50
    /\ call.out.score = 75

\* the value the label of a classified headline stands for
LabelValue(res) ==
    CASE res[1] = "positive" -> 100
      [] res[1] = "negative" -> 0
      [] OTHER -> 50

RECURSIVE LabelTotal(_)
LabelTotal(results) ==
    IF results = << >> THEN 0
    ELSE LabelValue(Head(results)) + LabelTotal(Tail(results))

\* score is the truncated mean of the label values of the source's
\* headlines (the first five)
IsLabelMean(score, source) ==
    LET heads == Take(source.heads, 5)
    IN  /\ score * Len(heads) <= LabelTotal(heads)
        /\ LabelTotal(heads) < (score + 1) * Len(heads)

\* C20: a source's score from analyze_headlines is the mean over its
\* headlines of a per-headline value that depends only on the classifier
\* label: positive = 100, neutral = 50, negative = 0; so a source whose
\* headlines are all labelled positive scores 100, whatever the
\* classifier's confidence.
C20_ScoreDependsOnLabelOnly ==
    (ConsReturned /\ call.classifier = "ok")
        => /\ ~Unavailable(call.yahoo)
                 => IsLabelMean(call.out.yahoo_score, call.yahoo)
           /\ ~Unavailable(call.google)
                 => IsLabelMean(call.out.google_score, call.google)

---------------------------------------------------------------------------
(* C21, C22: what a tier scores when its inputs are missing.               *)

Scored(t) == t \in DOMAIN scores

\* C21: when dividendYield is absent from the provider's mapping, the score
\* of Tier 9 (Total Yield) is exactly 20, in scores and in the breakdown
\* that is returned, and not the neutral 50.
C21_AbsentYieldIsTwenty ==
    info["dividendYield"] = Absent
        => /\ Scored("Tier 9: Total Yield") => scores["Tier 9: Total Yield"] = 20
           /\ Returned => result.breakdown["Tier 9: Total Yield"] = 20

\* a returned result without the dividendYield: Tier 9 is 20 next to a
\* Growth tier at the neutral 50
C21_Witness ==
    /\ Returned
    /\ info["dividendYield"] = Absent
    /\ result.breakdown["Tier 9: Total Yield"] = 20
    /\ result.breakdown["Tier 3: Growth"] = 50

\* the keys of stock.info a tier consumes
Consumed(t) ==
    CASE t = "Tier 1: Valuation" ->
            {"pegRatio", "trailingPE", "earningsGrowth",
             "priceToSalesTrailing12Months", "enterpriseToEbitda", "forwardPE"}
      [] t = "Tier 2: Intrinsic/Alpha" -> {"targetMeanPrice"}
      [] t = "Tier 3: Growth" -> {"revenueGrowth", "earningsGrowth"}
      [] t = "Tier 4: Efficiency" -> {"returnOnEquity", "profitMargins"}
      [] t = "Tier 5: Financial Health" -> {"currentRatio", "debtToEquity"}
      [] t = "Tier 6: Forensics" ->
            {"operatingCashflow", "netIncomeToCommon", "returnOnAssets"}
      [] t = "Tier 7: Management" -> {"heldPercentInsiders", "marketCap"}
      [] t = "Tier 8: Capital Flow" ->
            {"volume", "averageVolume", "heldPercentInstitutions"}
      [] t = "Tier 9: Total Yield" -> {"dividendYield"}
      [] t = "Tier 12: Derivatives" -> {"beta", "shortPercentFloat"}
      [] OTHER -> {}

\* the peer metrics a peer-relative tier ranks against
PeerMetrics(t) ==
    CASE t = "Tier 1: Valuation" -> {"Price/Sales", "EV/EBITDA", "P/E", "Fwd P/E"}
      [] t = "Tier 4: Efficiency" -> {"ROE", "Margins"}
      [] OTHER -> {}

\* no peer carries a value of any metric the tier ranks against
EmptyPeerSample(t) ==
    \A m \in PeerMetrics(t) :
        \A i \in 1..Len(loc.peers_data) : IsNone(loc.peers_data[i].m[m])

NoHeadlines(source) == ~source.ok \/ source.heads = << >>

\* every sub-metric of tier t is missing: its keys are absent from the
\* mapping and no peer carries its metrics; Tier 2 has no revision of the
\* last 30 days either, Tier 10 too few rows for any indicator, and
\* Tier 11 no headline of either source
AllMissing(t) ==
    /\ \A k \in Consumed(t) : info[k] = Absent
    /\ EmptyPeerSample(t)
    /\ t = "Tier 2: Intrinsic/Alpha"
          => env.revisions[1] # "ok" \/ env.revisions[2] + env.revisions[3] = 0
    /\ t = "Tier 10: Timing" => Len(env.history) <= 15
    /\ t = "Tier 11: Sentiment" => NoHeadlines(env.yahoo) /\ NoHeadlines(env.google)

\* C22: every tier other than Tier 9 whose sub-metrics are all missing
\* scores exactly 50.
C22_AllMissingIsFifty ==
    \A t \in TierLabels \ {"Tier 9: Total Yield"} :
        (Scored(t) /\ AllMissing(t)) => scores[t] = 50

\* a returned result in which the eleven tiers have nothing to score, the
\* peers all failing, and every one of them is 50 while Tier 9 is 20
C22_Witness ==
    /\ Returned
    /\ \A t \in TierLabels \ {"Tier 9: Total Yield"} :
          AllMissing(t) /\ result.breakdown[t] = 50
    /\ \A i \in 2..7 : ~env.infoOf[get_peers(env.ticker, env.sector)[i - 1]].ok
    /\ result.breakdown["Tier 9: Total Yield"] = 20

---------------------------------------------------------------------------
(* SpecOrder: the loop of lines 447-450 over scores.items() with the order *)
(* of the items left open.  scores and weights are the two dicts as the    *)
(* twelve tiers left them; call is [fn, pending, first, total_score,       *)
(* total_weight, out]: the tiers not yet visited, the tier visited first   *)
(* and the two accumulators.                                               *)

ScoreRow(row) == [t \in TierLabels |-> row[IndexOf(TierOrder, t)]]

OrderScores ==
    {ScoreRow(<<50, 50, 50, 50, 50, 50, 50, 50, 50, 50, 50, 50>>),
     ScoreRow(<<90, 90, 80, 90, 80, 50, 50, 50, 0, 50, 50, 50>>),
     ScoreRow(<<70, 80, 60, 75, 65, 50, 50, 55, 40, 60, 50, 80>>),
     ScoreRow(<<0, 9, 18, 27, 36, 45, 54, 63, 72, 81, 90, 99>>),
     ScoreRow(<<100, 0, 100, 0, 100, 0, 100, 0, 100, 0, 100, 0>>),
     ScoreRow(<<35, 35, 35, 35, 35, 35, 35, 35, 35, 35, 35, 36>>),
     ScoreRow(<<65, 65, 65, 65, 65, 65, 65, 65, 65, 65, 65, 64>>),
     ScoreRow(<<80, 80, 80, 80, 80, 80, 80, 80, 80, 80, 80, 79>>)}

OrderInit ==
    /\ pc = "loop"
    /\ call = [fn |-> "weighted", pending |-> TierLabels, first |-> "none",
               total_score |-> 0, total_weight |-> 0, out |-> Raised("pending")]
    /\ store = NoStore
    /\ env = NoEnv
    /\ loc = NoLoc
    /\ scores \in OrderScores
    /\ weights = WeightTable
    /\ result = NoResult

\* one pass of the loop body with the accumulator assigned, not added to
Accumulate_Overwrites ==
    /\ pc = "loop"
    /\ \E tier \in call.pending :
          LET w == WeightGet(weights, tier)
          IN  call' = [call EXCEPT !.pending = @ \ {tier},
                                   !.first = IF @ = "none" THEN tier ELSE @,
                                   !.total_score = scores[tier] * w,
                                   !.total_weight = @ + w]
    /\ UNCHANGED <<pc, store, env, loc, scores, weights, result>>

\* lines 447-450: one pass of the loop body, for any tier not yet visited
Accumulate ==
    /\ pc = "loop"
    /\ \E tier \in call.pending :
          LET w == WeightGet(weights, tier)
          IN  call' = [call EXCEPT !.pending = @ \ {tier},
                                   !.first = IF @ = "none" THEN tier ELSE @,
                                   !.total_score = @ + scores[tier] * w,
                                   !.total_weight = @ + w]
    /\ UNCHANGED <<pc, store, env, loc, scores, weights, result>>

\* lines 452-462 once the loop has ended
WeightedGrade ==
    /\ pc = "loop"
    /\ call.pending = {}
    /\ LET fws == IF call.total_weight > 0
                  THEN Q(call.total_score, call.total_weight)
                  ELSE R(50)
       IN  call' = [call EXCEPT !.out = [final_grade |-> grade(fws),
                                         final_score |-> Trunc(fws)]]
    /\ pc' = "returned"
    /\ UNCHANGED <<store, env, loc, scores, weights, result>>

OrderNext == Accumulate \/ WeightedGrade

SpecOrder == OrderInit /\ [][OrderNext]_vars

OrderReturned == pc = "returned" /\ call.fn = "weighted"

\* C23: final_score and final_grade do not depend on the order in which the
\* twelve (tier, score, weight) entries are accumulated: whatever order the
\* loop takes, the composite and the grade are those of the insertion order
\* Tier 1 .. Tier 12, hence the same for every permutation of the tiers.
C23_OrderIndependent ==
    OrderReturned
        => /\ call.out.final_score = final_score(scores, weights)
           /\ call.out.final_grade = grade(final_weighted_score(scores, weights))

\* the loop has run from Tier 12 first over scores that differ between the
\* tiers, and has given the composite 62 and the grade Hold
C23_Witness ==
    /\ OrderReturned
    /\ call.first = "Tier 12: Derivatives"
    /\ scores["Tier 1: Valuation"] = 90 /\ scores["Tier 9: Total Yield"] = 0
    /\ call.out = [final_grade |-> "Hold", final_score |-> 62]

---------------------------------------------------------------------------
(* SpecPeers: get_peer_raw(ticker, sector) against a provider snapshot.    *)
(* call is [fn, ticker, sector, infoOf, out].                              *)

PeersInit ==
    /\ pc = "get_peer_raw"
    /\ call \in {[fn |-> "get_peer_raw", ticker |-> t, sector |-> sec,
                  infoOf |-> Provider(t, sec, target, a), out |-> << >>] :
                    t \in Tickers, sec \in Sectors, target \in PeerSources,
                    a \in PeerAssignments}
    /\ store = NoStore
    /\ env = NoEnv
    /\ loc = NoLoc
    /\ scores = NoScores
    /\ weights = NoScores
    /\ result = NoResult

GetPeerRawCall ==
    /\ pc = "get_peer_raw"
    /\ pc' = "returned"
    /\ call' = [call EXCEPT !.out = get_peer_raw(call.ticker, call.sector, call.infoOf)]
    /\ UNCHANGED <<store, env, loc, scores, weights, result>>

PeersNext == GetPeerRawCall

SpecPeers == PeersInit /\ [][PeersNext]_vars

PeersReturned == pc = "returned" /\ call.fn = "get_peer_raw"

\* C24: for every ticker and sector, the peer sample returned by
\* get_peer_raw has at most 7 entries, contains no ticker more than once,
\* and contains an entry for the target ticker itself.
C24_SampleHoldsTargetOnce ==
    PeersReturned
        => /\ Len(call.out) <= 7
           /\ \A i, j \in 1..Len(call.out) :
                 call.out[i].Ticker = call.out[j].Ticker => i = j
           /\ \E i \in 1..Len(call.out) : call.out[i].Ticker = call.ticker

---------------------------------------------------------------------------
(* C25: the Timing score the composite sees.                               *)

\* the Timing score of lines 339-384, before the relative-strength step
Provisional == s_timing(env.history, env.dow)

\* the relative-strength step applies: more than 60 rows of history and a
\* benchmark computation that does not raise
Adjusts == Len(env.history) > 60 /\ env.spy[1] = "ok"

\* int(0.8 * provisional + 0.2 * s_rs)
Adjusted ==
    Trunc(RAdd(RMul(Q(8, 10), R(Provisional)),
               RMul(Q(2, 10), R(s_rs(env.history, env.spy[2], env.spy[3])))))

\* C25: the composite is computed after the relative-strength step: the
\* returned final_score and final_grade are the weighted mean of the
\* returned breakdown, whose Timing score is int(0.8 * provisional + 0.2 *
\* relative-strength score) when the history has more than 60 rows and the
\* benchmark computation succeeds, and the provisional score otherwise;
\* and no result exists before that step has run.
C25_CompositeSeesAdjustedTiming ==
    /\ Returned
          => /\ result.final_score = final_score(result.breakdown, WeightTable)
             /\ result.final_grade =
                   grade(final_weighted_score(result.breakdown, WeightTable))
             /\ result.breakdown["Tier 10: Timing"] =
                   IF Adjusts THEN Adjusted ELSE Provisional
    /\ pc \in {"tier11", "tier12", "rs"}
          => result.kind = "none" /\ scores["Tier 10: Timing"] = Provisional

\* a result whose Timing score was adjusted, and whose final_score is not
\* the one the provisional Timing score would have given
C25_Witness ==
    /\ Returned
    /\ Adjusts
    /\ result.breakdown["Tier 10: Timing"] = Adjusted
    /\ Adjusted # Provisional
    /\ result.final_score #
          final_score([result.breakdown EXCEPT !["Tier 10: Timing"] = Provisional],
                      WeightTable)

---------------------------------------------------------------------------
(* C26: the sub-scores of Tier 1 (Valuation).                              *)

\* the inverted peer percentile of a metric can be computed: the ticker
\* carries a usable value and so does at least one row of the peer sample
Ranks(metric_key, val) ==
    /\ Truthy(val)
    /\ ~IsNone(penalize(val, TRUE))
    /\ PeerValues(loc.peers_data, metric_key, TRUE) # << >>

\* the four sub-scores named for Tier 1, each only when it is available
FourSubScores ==
    LET peg_ratio == PegRatio(info)
        ev_ebitda == get(info, "enterpriseToEbitda")
        pe_ratio == get(info, "trailingPE")
        fwd_pe == get(info, "forwardPE")
    IN  When(Truthy(peg_ratio) /\ IsNum(peg_ratio), norm(peg_ratio, R(1), R(3), TRUE))
        \o When(Ranks("EV/EBITDA", ev_ebitda),
                get_percentile(loc.peers_data, "EV/EBITDA", ev_ebitda, TRUE))
        \o When(Ranks("P/E", pe_ratio),
                get_percentile(loc.peers_data, "P/E", pe_ratio, TRUE))
        \o When(Ranks("Fwd P/E", fwd_pe),
                get_percentile(loc.peers_data, "Fwd P/E", fwd_pe, TRUE))

\* C26: Tier 1 (Valuation) is the truncated mean of exactly the available
\* ones among four sub-scores: normalize(PEG, 1.0, 3.0, invert) and the
\* inverted peer percentiles of EV/EBITDA, trailing P/E and forward P/E; no
\* other sub-score enters the mean, and a sub-metric that cannot be computed
\* is omitted from the mean and contributes no default value.
C26_ValuationIsMeanOfFour ==
    Scored("Tier 1: Valuation")
        => scores["Tier 1: Valuation"] = TierMean(FourSubScores)

---------------------------------------------------------------------------
(* C27: Tier 6 (Forensics) on numeric cash flow and income.                *)

\* C27: for all numeric operating cash flow OCF and net income NI, zero
\* included: if NI > 0 the Tier 6 score is int(normalize(OCF / NI, 0.8,
\* 1.5)); otherwise if OCF > 0 it is 75; otherwise it is 20.
C27_ForensicsOnAllNumbers ==
    LET ocf == get(info, "operatingCashflow")
        ni == get(info, "netIncomeToCommon")
    IN  (Scored("Tier 6: Forensics") /\ IsNum(ocf) /\ IsNum(ni))
            => scores["Tier 6: Forensics"] =
                  IF ni[2] > 0
                  THEN Trunc(norm(FromRat(RDiv(Rat(ocf), Rat(ni))),
                                  Q(8, 10), Q(15, 10), FALSE))
                  ELSE IF ocf[2] > 0 THEN 75 ELSE 20

---------------------------------------------------------------------------
(* C28: the RSI terms of the Timing tier that have no defined value.       *)

\* the average loss over the last 14 rows of a series is zero
NoLoss(series) ==
    Len(series) >= 14 /\ SumLoss(series, Len(series) - 13, Len(series)) = 0

Weekly == weekly_history(env.history, env.dow)

\* the score an RSI term contributes when 50 stands for an undefined value
DailyTerm == IF NoLoss(env.history) THEN 50 ELSE score_rsi(rsi_d(env.history))
WeeklyTerm ==
    IF Len(Weekly) <= 15 \/ NoLoss(Weekly)
    THEN 50
    ELSE score_rsi(rsi_w(env.history, env.dow))

\* C28: whenever an RSI term of the Timing tier has no defined value (the
\* 14-period average loss is zero, or there are 15 or fewer weekly closes
\* for the weekly RSI), that term contributes the neutral bucket score 50 to
\* the Timing blend int(0.4 * s_sma + 0.4 * weekly + 0.2 * daily).
C28_UndefinedRsiIsNeutral ==
    (pc \in {"tier11", "tier12", "rs"} /\ Len(env.history) > 15)
        => scores["Tier 10: Timing"] =
              Trunc(Q(4 * s_sma(env.history) + 4 * WeeklyTerm + 2 * DailyTerm, 10))

---------------------------------------------------------------------------
(* SpecRsi: score_rsi applied to an RSI value.  call is [fn, val, out].    *)

\* the RSI values are the multiples of 1 / d in [0, 100] for d up to RsiDen
RsiDen == 2

RsiInit ==
    /\ pc = "score_rsi"
    /\ call \in {[fn |-> "score_rsi", val |-> v, out |-> -1] :
                    v \in {NaN} \cup {Num(n, d) : n \in 0..(100 * RsiDen), d \in 1..RsiDen}}
    /\ RLe(Rat(call.val), R(100))
    /\ store = NoStore
    /\ env = NoEnv
    /\ loc = NoLoc
    /\ scores = NoScores
    /\ weights = NoScores
    /\ result = NoResult

ScoreRsiCall ==
    /\ pc = "score_rsi"
    /\ pc' = "returned"
    /\ call' = [call EXCEPT !.out = score_rsi(call.val)]
    /\ UNCHANGED <<store, env, loc, scores, weights, result>>

RsiNext == ScoreRsiCall

SpecRsi == RsiInit /\ [][RsiNext]_vars

RsiReturned == pc = "returned" /\ call.fn = "score_rsi"

\* C29: score_rsi is a total function of a defined RSI value in [0, 100]
\* with exactly these buckets: val < 30 -> 100; 30 <= val < 40 -> 85;
\* 50 <= val <= 70 -> 65; val > 75 -> 20; every other value (40 <= val < 50
\* and 70 < val <= 75) -> 50; so its result is one of 100, 85, 65, 50, 20.
C29_RsiBuckets ==
    (RsiReturned /\ ~IsNaN(call.val))
        => LET val == Rat(call.val)
           IN  /\ RLt(val, R(30)) => call.out = 100
               /\ RLe(R(30), val) /\ RLt(val, R(40)) => call.out = 85
               /\ RLe(R(40), val) /\ RLt(val, R(50)) => call.out = 50
               /\ RLe(R(50), val) /\ RLe(val, R(70)) => call.out = 65
               /\ RLt(R(70), val) /\ RLe(val, R(75)) => call.out = 50
               /\ RLt(R(75), val) => call.out = 20
               /\ call.out \in {100, 85, 65, 50, 20}

\* an RSI of 72.5, between the trend bucket and the overbought one, scored 50
C29_Witness ==
    /\ RsiReturned
    /\ call.val = Num(145, 2)
    /\ call.out = 50

---------------------------------------------------------------------------
(* C30: the values get_percentile ranks when calculate_scores calls it.    *)

\* the calls of get_percentile in calculate_scores: <<metric_key, the key
\* of the ticker's own value, invert>>
PercentileCalls ==
    {<<"Price/Sales", "priceToSalesTrailing12Months", TRUE>>,
     <<"EV/EBITDA", "enterpriseToEbitda", TRUE>>,
     <<"P/E", "trailingPE", TRUE>>,
     <<"Fwd P/E", "forwardPE", TRUE>>,
     <<"ROE", "returnOnEquity", FALSE>>,
     <<"Margins", "profitMargins", FALSE>>}

PeersLoaded == "peers_data" \in DOMAIN loc

\* the call c reaches the ranking of line 144
RanksTarget(c) ==
    /\ ~IsNone(penalize(get(info, c[2]), c[3]))
    /\ PeerValues(loc.peers_data, c[1], c[3]) # << >>

\* `values` when line 144 ranks it
RankedSample(c) ==
    Append(PeerValues(loc.peers_data, c[1], c[3]),
           Rat(penalize(get(info, c[2]), c[3])))

\* the rows of peers_data of the other tickers that carry the metric
OtherPeers(c) ==
    {i \in 1..Len(loc.peers_data) :
        /\ loc.peers_data[i].Ticker # env.ticker
        /\ ~IsNone(penalize(loc.peers_data[i].m[c[1]], c[3]))}

\* C30: in get_percentile as called from calculate_scores, the ranked
\* multiset holds the target's value exactly once and each other peer's
\* usable value once: with n other peers carrying the metric the sample
\* size is n + 1.
C30_TargetRankedOnce ==
    PeersLoaded
        => \A c \in PercentileCalls :
              RanksTarget(c) => Len(RankedSample(c)) = Cardinality(OtherPeers(c)) + 1

=============================================================================
